---- MODULE Spec2Model ----
(***************************************************************************)
(* A model of SmartSheets-AI: the data store, the validation engine        *)
(* (lib/validation-engine.ts), the rule validator (lib/rule-types.ts) and  *)
(* the components that change the rule collection (page.tsx, the rule      *)
(* management / rule builder components, the AI assistant).                *)
(*                                                                         *)
(* JavaScript values are tagged records of one shape:                      *)
(*   t = "undef" | "null" | "num" | "nan" | "str" | "arr" | "obj"          *)
(*   n = the number, s = the string as a sequence of one-character         *)
(*   strings, a = the array's elements (values of the same shape).         *)
(* Strings are character sequences so that split, trim, includes,          *)
(* toLowerCase, Number and JSON.parse are computed, not assumed.           *)
(***************************************************************************)
EXTENDS Integers, Sequences, FiniteSets, TLC

VARIABLES clients, workers, tasks,    \* the store's three collections
          outcome, report,           \* how validateAll ended, the report it returned
          rules, now,                \* the rule collection (HomePage), Date.now()
          validationErrors,          \* the reasons the rule builder shows
          recommendations,           \* the AI assistant's recommendations
          ruleSet,                   \* the manifest last exported, if any
          query, parsedQuery,        \* the search box's text, its parse if any
          suggestions,               \* the search suggestions
          searchResults,             \* the result groups the search shows
          timers, isValidating       \* the validation panel's pending timers, its flag

vars == <<clients, workers, tasks, outcome, report, rules, now, validationErrors,
          recommendations, ruleSet, query, parsedQuery, suggestions, searchResults,
          timers, isValidating>>

exportVars == <<ruleSet>>
searchVars == <<query, parsedQuery, suggestions, searchResults>>
panelVars == <<timers, isValidating>>

-----------------------------------------------------------------------------
(* JavaScript values *)

Undef == [t |-> "undef", n |-> 0, s |-> <<>>, a |-> <<>>]
Null == [t |-> "null", n |-> 0, s |-> <<>>, a |-> <<>>]
NaN == [t |-> "nan", n |-> 0, s |-> <<>>, a |-> <<>>]
Obj == [t |-> "obj", n |-> 0, s |-> <<>>, a |-> <<>>]
Num(k) == [t |-> "num", n |-> k, s |-> <<>>, a |-> <<>>]
Str(cs) == [t |-> "str", n |-> 0, s |-> cs, a |-> <<>>]
Arr(es) == [t |-> "arr", n |-> 0, s |-> <<>>, a |-> es]

\* ToBoolean: what `if (x)` and `x && ...` test.
Truthy(v) ==
  CASE v.t = "undef" -> FALSE
    [] v.t = "null" -> FALSE
    [] v.t = "nan" -> FALSE
    [] v.t = "num" -> v.n # 0
    [] v.t = "str" -> v.s # <<>>
    [] OTHER -> TRUE

IsString(v) == v.t = "str"
IsArray(v) == v.t = "arr"
IsNumber(v) == v.t = "num" \/ v.t = "nan"

-----------------------------------------------------------------------------
(* Strings *)

Digits == <<"0", "1", "2", "3", "4", "5", "6", "7", "8", "9">>
Upper == <<"A", "B", "C", "D", "E", "F", "G", "H", "I", "J", "K", "L", "M",
           "N", "O", "P", "Q", "R", "S", "T", "U", "V", "W", "X", "Y", "Z">>
Lower == <<"a", "b", "c", "d", "e", "f", "g", "h", "i", "j", "k", "l", "m",
           "n", "o", "p", "q", "r", "s", "t", "u", "v", "w", "x", "y", "z">>

IsDigit(c) == \E i \in 1..10 : Digits[i] = c
DigitVal(c) == (CHOOSE i \in 1..10 : Digits[i] = c) - 1
IsSpace(c) == c = " "

LowerChar(c) ==
  IF \E i \in 1..26 : Upper[i] = c
    THEN Lower[CHOOSE i \in 1..26 : Upper[i] = c]
    ELSE c

\* String.prototype.toLowerCase
ToLowerCase(cs) == [i \in 1..Len(cs) |-> LowerChar(cs[i])]

\* String.prototype.includes(sub)
Includes(cs, sub) ==
  \E i \in 0..(Len(cs) - Len(sub)) :
    \A j \in 1..Len(sub) : cs[i + j] = sub[j]

\* String.prototype.trim
RECURSIVE TrimLeft(_)
TrimLeft(cs) ==
  IF cs # <<>> /\ IsSpace(Head(cs)) THEN TrimLeft(Tail(cs)) ELSE cs

RECURSIVE TrimRight(_)
TrimRight(cs) ==
  IF cs # <<>> /\ IsSpace(cs[Len(cs)])
    THEN TrimRight(SubSeq(cs, 1, Len(cs) - 1))
    ELSE cs

Trim(cs) == TrimRight(TrimLeft(cs))

\* String.prototype.split(sep) for a one-character separator: "" gives [""].
RECURSIVE SplitFrom(_, _, _)
SplitFrom(cs, sep, cur) ==
  IF cs = <<>> THEN <<cur>>
  ELSE IF Head(cs) = sep THEN <<cur>> \o SplitFrom(Tail(cs), sep, <<>>)
  ELSE SplitFrom(Tail(cs), sep, Append(cur, Head(cs)))

Split(cs, sep) == SplitFrom(cs, sep, <<>>)

\* The decimal digits of a natural number, and String(n) of an integer.
RECURSIVE NatChars(_)
NatChars(k) ==
  IF k < 10 THEN <<Digits[k + 1]>>
  ELSE Append(NatChars(k \div 10), Digits[(k % 10) + 1])

IntChars(k) == IF k < 0 THEN <<"-">> \o NatChars(0 - k) ELSE NatChars(k)

RECURSIVE DigitsVal(_, _)
DigitsVal(cs, acc) ==
  IF cs = <<>> THEN acc ELSE DigitsVal(Tail(cs), 10 * acc + DigitVal(Head(cs)))

AllDigits(cs) == cs # <<>> /\ \A i \in 1..Len(cs) : IsDigit(cs[i])

\* Number(string) on the strings of this model (white space, sign, decimal
\* digits; no fraction, exponent, hex or Infinity spelling occurs in them):
\* the empty or blank string is 0, a signed run of digits its value, the rest NaN.
NumberOf(cs) ==
  LET b == Trim(cs) IN
  IF b = <<>> THEN Num(0)
  ELSE IF AllDigits(b) THEN Num(DigitsVal(b, 0))
  ELSE IF (Head(b) = "-" \/ Head(b) = "+") /\ AllDigits(Tail(b))
    THEN Num(IF Head(b) = "-" THEN 0 - DigitsVal(Tail(b), 0) ELSE DigitsVal(Tail(b), 0))
  ELSE NaN

\* A JSON number token of this model: an integer without a leading zero.
IsJSONInt(cs) ==
  LET d == IF cs # <<>> /\ Head(cs) = "-" THEN Tail(cs) ELSE cs IN
  AllDigits(d) /\ (Len(d) = 1 \/ Head(d) # "0")

JSONInt(cs) ==
  IF Head(cs) = "-" THEN Num(0 - DigitsVal(Tail(cs), 0)) ELSE Num(DigitsVal(cs, 0))

\* JSON.parse on the strings of this model, which hold no quote and spell none
\* of true, false, null: the valid texts are an integer, a flat array of
\* integers, and the empty object. Anything else throws.
JSONThrows(cs) ==
  LET b == Trim(cs) IN
  ~ \/ IsJSONInt(b)
    \/ /\ Len(b) >= 2 /\ Head(b) = "[" /\ b[Len(b)] = "]"
       /\ LET inner == SubSeq(b, 2, Len(b) - 1) IN
          \/ Trim(inner) = <<>>
          \/ \A p \in 1..Len(Split(inner, ",")) : IsJSONInt(Trim(Split(inner, ",")[p]))
    \/ /\ Len(b) >= 2 /\ Head(b) = "{" /\ b[Len(b)] = "}"
       /\ Trim(SubSeq(b, 2, Len(b) - 1)) = <<>>

JSONParse(cs) ==
  LET b == Trim(cs) IN
  IF IsJSONInt(b) THEN JSONInt(b)
  ELSE IF Head(b) = "{" THEN Obj
  ELSE LET inner == SubSeq(b, 2, Len(b) - 1)
           parts == Split(inner, ",") IN
       IF Trim(inner) = <<>> THEN Arr(<<>>)
       ELSE Arr([p \in 1..Len(parts) |-> JSONInt(Trim(parts[p]))])

\* String(v) as a template literal `${v}` computes it.
RECURSIVE JoinComma(_)
ToStr(v) ==
  CASE v.t = "str" -> v.s
    [] v.t = "num" -> IntChars(v.n)
    [] v.t = "nan" -> <<"N", "a", "N">>
    [] v.t = "null" -> <<"n", "u", "l", "l">>
    [] v.t = "undef" -> <<"u", "n", "d", "e", "f", "i", "n", "e", "d">>
    [] v.t = "obj" -> <<"[", "o", "b", "j", "e", "c", "t", " ", "O", "b", "j", "e", "c", "t", "]">>
    [] OTHER -> JoinComma(v.a)

JoinComma(es) ==
  IF es = <<>> THEN <<>>
  ELSE LET h == IF Head(es).t \in {"null", "undef"} THEN <<>> ELSE ToStr(Head(es)) IN
       IF Len(es) = 1 THEN h ELSE h \o <<",">> \o JoinComma(Tail(es))

-----------------------------------------------------------------------------
(* Numbers and sets of values *)

\* ToNumber, as the relational operators apply it to a non-number operand.
ToNumber(v) ==
  CASE v.t = "num" -> v
    [] v.t = "null" -> Num(0)
    [] v.t = "str" -> NumberOf(v.s)
    [] v.t = "arr" -> NumberOf(JoinComma(v.a))
    [] OTHER -> NaN

\* v < k and v > k for a number k: false as soon as an operand is NaN.
LessThan(v, k) == ToNumber(v).t = "num" /\ ToNumber(v).n < k
GreaterThan(v, k) == ToNumber(v).t = "num" /\ ToNumber(v).n > k

\* SameValueZero, the equality of Set.has and Array.includes: primitives by
\* value, arrays and objects by identity (two rows never share one).
SameValueZero(x, y) == x.t \notin {"arr", "obj"} /\ x = y

SeqHas(vs, x) == \E i \in 1..Len(vs) : SameValueZero(vs[i], x)

RECURSIVE ConcatAll(_)
ConcatAll(ss) == IF ss = <<>> THEN <<>> ELSE Head(ss) \o ConcatAll(Tail(ss))

\* Array.isArray(x) ? x : JSON.parse(x)
ParseOrArray(v) ==
  IF IsArray(v) THEN [threw |-> FALSE, v |-> v]
  ELSE IF JSONThrows(ToStr(v)) THEN [threw |-> TRUE, v |-> Undef]
  ELSE [threw |-> FALSE, v |-> JSONParse(ToStr(v))]

\* typeof x === "string" ? x.split(",").map(trim) : Array.isArray(x) ? x : []
CommaList(v) ==
  IF IsString(v)
    THEN [i \in 1..Len(Split(v.s, ",")) |-> Str(Trim(Split(v.s, ",")[i]))]
    ELSE IF IsArray(v) THEN v.a ELSE <<>>

-----------------------------------------------------------------------------
(* The validation engine: lib/validation-engine.ts *)

\* A ValidationError. An id or a message is the sequence of its pieces: the
\* literal parts of the template as one string each, the interpolated values
\* character by character. No literal prefix of an id is a prefix of another,
\* so two ids are equal as sequences exactly when their strings are equal.
\* The advisory suggestion text is not modelled.
Issue(id, type, severity, message, field, rowIndex, entityType, autoFixable) ==
  [id |-> id, type |-> type, severity |-> severity, message |-> message,
   field |-> field, rowIndex |-> rowIndex, entityType |-> entityType,
   autoFixable |-> autoFixable]

requiredFields ==
  [clients |-> <<"ClientID", "ClientName", "PriorityLevel", "RequestedTaskIDs">>,
   workers |-> <<"WorkerID", "WorkerName", "Skills", "AvailableSlots", "MaxLoadPerPhase">>,
   tasks |-> <<"TaskID", "TaskName", "Duration", "RequiredSkills", "MaxConcurrent">>]

\* 1. Missing required columns: `field in firstRow` on the first row only.
MissingColumns(entityType, data) ==
  IF Len(data) > 0
    THEN ConcatAll([k \in 1..Len(requiredFields[entityType]) |->
           LET field == requiredFields[entityType][k] IN
           IF data[1][field].t = "undef"
             THEN <<Issue(<<"missing-column-", entityType, "-", field>>, "error", "high",
                          <<"Missing required column: ", field>>, field, -1,
                          entityType, FALSE)>>
             ELSE <<>>])
    ELSE <<>>

validateRequiredColumns(cs, ws, ts) ==
  MissingColumns("clients", cs) \o MissingColumns("workers", ws) \o MissingColumns("tasks", ts)

\* 2. Duplicate IDs: the row is flagged when its id is truthy and already seen.
checkDuplicatesMissesFirstRow(data, idField, entityType) ==
  ConcatAll([i \in 1..Len(data) |->
    LET id == data[i][idField] IN
    IF Truthy(id) /\ \E j \in 2..(i - 1) : SameValueZero(data[j][idField], id)
      THEN <<Issue(<<"duplicate-id-", entityType, "-">> \o IntChars(i - 1), "error", "high",
                   <<"Duplicate ", idField, ": ">> \o ToStr(id), idField, i - 1,
                   entityType, TRUE)>>
      ELSE <<>>])

checkDuplicates(data, idField, entityType) ==
  ConcatAll([i \in 1..Len(data) |->
    LET id == data[i][idField] IN
    IF Truthy(id) /\ \E j \in 1..(i - 1) : SameValueZero(data[j][idField], id)
      THEN <<Issue(<<"duplicate-id-", entityType, "-">> \o IntChars(i - 1), "error", "high",
                   <<"Duplicate ", idField, ": ">> \o ToStr(id), idField, i - 1,
                   entityType, TRUE)>>
      ELSE <<>>])

validateDuplicateIDs(cs, ws, ts) ==
  checkDuplicates(cs, "ClientID", "clients")
    \o checkDuplicates(ws, "WorkerID", "workers")
    \o checkDuplicates(ts, "TaskID", "tasks")

\* 3. Malformed lists: AvailableSlots must parse to an array of positive numbers.
validateMalformedLists(ws) ==
  ConcatAll([i \in 1..Len(ws) |->
    LET slots == ws[i].AvailableSlots
        parsed == ParseOrArray(slots)
        err(msg) == <<Issue(<<"malformed-slots-">> \o IntChars(i - 1), "error", "medium",
                            <<msg>>, "AvailableSlots", i - 1, "workers", TRUE)>> IN
    IF ~Truthy(slots) THEN <<>>
    ELSE IF parsed.threw THEN err("Invalid AvailableSlots format")
    ELSE IF ~IsArray(parsed.v)
            \/ ~ \A k \in 1..Len(parsed.v.a) : parsed.v.a[k].t = "num" /\ parsed.v.a[k].n > 0
      THEN err("AvailableSlots must be an array of positive numbers")
    ELSE <<>>])

\* 4. Out-of-range values: `priority && (priority < 1 || priority > 5)` and
\* `duration && duration < 1`.
PriorityIssues(cs) ==
  ConcatAll([i \in 1..Len(cs) |->
    LET priority == cs[i].PriorityLevel IN
    IF Truthy(priority) /\ (LessThan(priority, 1) \/ GreaterThan(priority, 5))
      THEN <<Issue(<<"priority-range-">> \o IntChars(i - 1), "error", "medium",
                   <<"PriorityLevel must be between 1-5, got ">> \o ToStr(priority),
                   "PriorityLevel", i - 1, "clients", TRUE)>>
      ELSE <<>>])

DurationIssues(ts) ==
  ConcatAll([i \in 1..Len(ts) |->
    LET duration == ts[i].Duration IN
    IF Truthy(duration) /\ LessThan(duration, 1)
      THEN <<Issue(<<"duration-range-">> \o IntChars(i - 1), "error", "medium",
                   <<"Duration must be >= 1, got ">> \o ToStr(duration),
                   "Duration", i - 1, "tasks", TRUE)>>
      ELSE <<>>])

validateOutOfRangeValues(cs, ts) == PriorityIssues(cs) \o DurationIssues(ts)

\* 5. Broken JSON in AttributesJSON, when it is a non-empty string.
validateBrokenJSON(cs) ==
  ConcatAll([i \in 1..Len(cs) |->
    LET json == cs[i].AttributesJSON IN
    IF Truthy(json) /\ IsString(json) /\ JSONThrows(json.s)
      THEN <<Issue(<<"broken-json-">> \o IntChars(i - 1), "error", "medium",
                   <<"Invalid JSON in AttributesJSON">>, "AttributesJSON", i - 1,
                   "clients", FALSE)>>
      ELSE <<>>])

\* 6. Unknown references: each truthy entry of the requested list that is not
\* in the set of TaskIDs.
taskIdsOf(ts) == [j \in 1..Len(ts) |-> ts[j].TaskID]

UnknownReferencesOf(client, index, ts) ==
  LET requestedTasks == client.RequestedTaskIDs
      taskList == CommaList(requestedTasks) IN
  IF ~Truthy(requestedTasks) THEN <<>>
  ELSE ConcatAll([k \in 1..Len(taskList) |->
         LET taskId == taskList[k] IN
         IF Truthy(taskId) /\ ~SeqHas(taskIdsOf(ts), taskId)
           THEN <<Issue(<<"unknown-task-">> \o IntChars(index) \o <<"-">> \o ToStr(taskId),
                        "error", "high",
                        <<"Unknown TaskID reference: ">> \o ToStr(taskId),
                        "RequestedTaskIDs", index, "clients", TRUE)>>
           ELSE <<>>])

validateUnknownReferences(cs, ts) ==
  ConcatAll([i \in 1..Len(cs) |-> UnknownReferencesOf(cs[i], i - 1, ts)])

\* 7. Overloaded workers: fewer parsed slots than MaxLoadPerPhase.
validateOverloadedWorkers(ws) ==
  ConcatAll([i \in 1..Len(ws) |->
    LET availableSlots == ws[i].AvailableSlots
        maxLoad == ws[i].MaxLoadPerPhase
        slots == ParseOrArray(availableSlots) IN
    IF Truthy(availableSlots) /\ Truthy(maxLoad) /\ ~slots.threw /\ IsArray(slots.v)
         /\ GreaterThan(maxLoad, Len(slots.v.a))
      THEN <<Issue(<<"overloaded-worker-">> \o IntChars(i - 1), "warning", "medium",
                   <<"Worker has ">> \o IntChars(Len(slots.v.a))
                     \o <<" available slots but MaxLoadPerPhase is ">> \o ToStr(maxLoad),
                   "MaxLoadPerPhase", i - 1, "workers", TRUE)>>
      ELSE <<>>])

\* 8. Skill coverage: every truthy required skill must be some worker's skill.
workerSkillsOf(ws) ==
  ConcatAll([j \in 1..Len(ws) |->
    IF Truthy(ws[j].Skills) THEN CommaList(ws[j].Skills) ELSE <<>>])

validateSkillCoverage(ws, ts) ==
  ConcatAll([i \in 1..Len(ts) |->
    LET requiredSkills == ts[i].RequiredSkills
        skillList == CommaList(requiredSkills) IN
    IF ~Truthy(requiredSkills) THEN <<>>
    ELSE ConcatAll([k \in 1..Len(skillList) |->
           LET skill == skillList[k] IN
           IF Truthy(skill) /\ ~SeqHas(workerSkillsOf(ws), skill)
             THEN <<Issue(<<"missing-skill-">> \o IntChars(i - 1) \o <<"-">> \o ToStr(skill),
                          "error", "high",
                          <<"No worker has required skill: ">> \o ToStr(skill),
                          "RequiredSkills", i - 1, "tasks", FALSE)>>
             ELSE <<>>])])

\* 9. Max concurrency: MaxConcurrent against the number of workers that have
\* every required skill.
qualifiedWorkersFor(skillList, ws) ==
  Cardinality({j \in 1..Len(ws) :
    /\ Truthy(ws[j].Skills)
    /\ \A k \in 1..Len(skillList) : SeqHas(CommaList(ws[j].Skills), skillList[k])})

validateMaxConcurrency(ws, ts) ==
  ConcatAll([i \in 1..Len(ts) |->
    LET maxConcurrent == ts[i].MaxConcurrent
        requiredSkills == ts[i].RequiredSkills
        qualifiedWorkers == qualifiedWorkersFor(CommaList(requiredSkills), ws) IN
    IF Truthy(maxConcurrent) /\ Truthy(requiredSkills)
         /\ GreaterThan(maxConcurrent, qualifiedWorkers)
      THEN <<Issue(<<"max-concurrency-">> \o IntChars(i - 1), "warning", "medium",
                   <<"MaxConcurrent (">> \o ToStr(maxConcurrent)
                     \o <<") exceeds qualified workers (">> \o IntChars(qualifiedWorkers)
                     \o <<")">>,
                   "MaxConcurrent", i - 1, "tasks", TRUE)>>
      ELSE <<>>])

\* The `phases` a task's PreferredPhases gives (the same statements in checks
\* 10 and 12): an array as it is; a string holding "-" as the range from
\* Number(first piece) to Number(second piece), of length
\* ToLength(end - start + 1), which is 0 for NaN and for a negative number;
\* another string through JSON.parse, which may throw; anything else [].
RangeOf(cs) ==
  LET parts == Split(cs, "-")
      start == NumberOf(parts[1])
      end == NumberOf(parts[2])
      length == IF start.t = "num" /\ end.t = "num" /\ end.n - start.n + 1 > 0
                  THEN end.n - start.n + 1 ELSE 0 IN
  Arr([i \in 1..length |-> Num(start.n + i - 1)])

PhasesOf(preferredPhases) ==
  IF IsArray(preferredPhases) THEN [threw |-> FALSE, v |-> preferredPhases]
  ELSE IF IsString(preferredPhases)
    THEN IF Includes(preferredPhases.s, <<"-">>)
           THEN [threw |-> FALSE, v |-> RangeOf(preferredPhases.s)]
         ELSE IF JSONThrows(preferredPhases.s) THEN [threw |-> TRUE, v |-> Undef]
         ELSE [threw |-> FALSE, v |-> JSONParse(preferredPhases.s)]
  ELSE [threw |-> FALSE, v |-> Arr(<<>>)]

\* An object used as a map from property keys (strings) to numbers: the
\* sequence of its <<key, value>> pairs in insertion order.
HasKey(m, key) == \E i \in 1..Len(m) : m[i][1] = key
Lookup(m, key) == m[CHOOSE i \in 1..Len(m) : m[i][1] = key][2]

\* m[key] = (m[key] || 0) + n
AddTo(m, key, n) ==
  IF HasKey(m, key)
    THEN [i \in 1..Len(m) |->
           IF m[i][1] = key THEN <<key, m[i][2] + n>> ELSE m[i]]
    ELSE Append(m, <<key, n>>)

RECURSIVE AddEach(_, _, _)
AddEach(m, elems, n) ==
  IF elems = <<>> THEN m ELSE AddEach(AddTo(m, ToStr(Head(elems)), n), Tail(elems), n)

\* worker.MaxLoadPerPhase || 1 and the task's duration are numbers in every
\* row of this model, so `+` is the addition of numbers.
RECURSIVE phaseSlotsOf(_)
phaseSlotsOf(ws) ==
  IF ws = <<>> THEN <<>>
  ELSE LET worker == ws[Len(ws)]
           before == phaseSlotsOf(SubSeq(ws, 1, Len(ws) - 1))
           slots == ParseOrArray(worker.AvailableSlots)
           load == IF Truthy(worker.MaxLoadPerPhase) THEN worker.MaxLoadPerPhase.n ELSE 1 IN
       IF Truthy(worker.AvailableSlots) /\ ~slots.threw /\ IsArray(slots.v)
         THEN AddEach(before, slots.v.a, load)
         ELSE before

\* Whether the task's block in check 10 ends in its catch: JSON.parse threw, or
\* `phases` is not an array and phases.forEach is not a function.
PhaseFormatFails(task) ==
  /\ Truthy(task.Duration) /\ Truthy(task.PreferredPhases)
  /\ (PhasesOf(task.PreferredPhases).threw \/ ~IsArray(PhasesOf(task.PreferredPhases).v))

RECURSIVE phaseDemandOf(_)
phaseDemandOf(ts) ==
  IF ts = <<>> THEN <<>>
  ELSE LET task == ts[Len(ts)]
           before == phaseDemandOf(SubSeq(ts, 1, Len(ts) - 1)) IN
       IF Truthy(task.Duration) /\ Truthy(task.PreferredPhases) /\ ~PhaseFormatFails(task)
         THEN AddEach(before, PhasesOf(task.PreferredPhases).v.a, task.Duration.n)
         ELSE before

\* Object.entries: the keys that are array indices (canonical non-negative
\* integers) in ascending order, then the other keys in insertion order.
IsIndexKey(key) == AllDigits(key) /\ (Len(key) = 1 \/ Head(key) # "0")

ObjectEntries(m) ==
  LET idx == SelectSeq(m, LAMBDA e : IsIndexKey(e[1]))
      rest == SelectSeq(m, LAMBDA e : ~IsIndexKey(e[1])) IN
  SortSeq(idx, LAMBDA x, y : DigitsVal(x[1], 0) < DigitsVal(y[1], 0)) \o rest

\* phaseSlots[Number(phase)] || 0
availableFor(phaseSlots, phase) ==
  LET key == ToStr(NumberOf(phase)) IN
  IF HasKey(phaseSlots, key) THEN Lookup(phaseSlots, key) ELSE 0

\* 10. Phase-slot saturation.
PhaseFormatIssues(ts) ==
  ConcatAll([i \in 1..Len(ts) |->
    IF PhaseFormatFails(ts[i])
      THEN <<Issue(<<"phase-format-">> \o IntChars(i - 1), "warning", "low",
                   <<"Invalid PreferredPhases format">>, "PreferredPhases", i - 1,
                   "tasks", TRUE)>>
      ELSE <<>>])

SaturationIssues(ws, ts) ==
  LET entries == ObjectEntries(phaseDemandOf(ts)) IN
  ConcatAll([k \in 1..Len(entries) |->
    LET phase == entries[k][1]
        demand == entries[k][2]
        available == availableFor(phaseSlotsOf(ws), phase) IN
    IF demand > available
      THEN <<Issue(<<"phase-saturation-">> \o phase, "error", "high",
                   <<"Phase ">> \o phase \o <<" is oversaturated: ">> \o IntChars(demand)
                     \o <<" duration needed, ">> \o IntChars(available)
                     \o <<" slots available">>,
                   "PreferredPhases", -1, "tasks", FALSE)>>
      ELSE <<>>])

validatePhaseSlotSaturation(ws, ts) == PhaseFormatIssues(ts) \o SaturationIssues(ws, ts)

\* 11. Circular co-run groups. task.TaskName.toLowerCase is not a function
\* when a truthy TaskName is not a string: the call throws a TypeError that
\* nothing in the class catches. (A Category is a key of a plain object here;
\* no Category of this model is the name of an Object.prototype member.)
circular == <<"c", "i", "r", "c", "u", "l", "a", "r">>

CircularThrows(ts) ==
  \E i \in 1..Len(ts) : Truthy(ts[i].TaskName) /\ ~IsString(ts[i].TaskName)

validateCircularCoRunGroups(ts) ==
  ConcatAll([i \in 1..Len(ts) |->
    LET name == ts[i].TaskName IN
    IF Truthy(name) /\ IsString(name) /\ Includes(ToLowerCase(name.s), circular)
      THEN <<Issue(<<"circular-corun-">> \o IntChars(i - 1), "error", "high",
                   <<"Potential circular co-run dependency detected in task: ">> \o name.s,
                   "TaskName", i - 1, "tasks", FALSE)>>
      ELSE <<>>])

\* 12. Conflicting rules vs. phase-window constraints. phases.length is
\* undefined when JSON.parse gave a number or an object: both comparisons
\* are then false.
validateConflictingRules(ts) ==
  ConcatAll([i \in 1..Len(ts) |->
    LET preferredPhases == ts[i].PreferredPhases
        duration == ts[i].Duration
        maxConcurrent == ts[i].MaxConcurrent
        phases == PhasesOf(preferredPhases) IN
    IF Truthy(preferredPhases) /\ Truthy(duration) /\ Truthy(maxConcurrent)
         /\ ~phases.threw /\ IsArray(phases.v)
      THEN (IF Len(phases.v.a) > 0 /\ GreaterThan(duration, Len(phases.v.a) * 2)
              THEN <<Issue(<<"conflicting-rules-">> \o IntChars(i - 1), "warning", "medium",
                           <<"Task duration (">> \o ToStr(duration)
                             \o <<") may conflict with preferred phases (">>
                             \o JoinComma(phases.v.a) \o <<")">>,
                           "Duration", i - 1, "tasks", TRUE)>>
              ELSE <<>>)
           \o (IF GreaterThan(maxConcurrent, Len(phases.v.a))
              THEN <<Issue(<<"concurrent-phase-conflict-">> \o IntChars(i - 1), "warning",
                           "medium",
                           <<"MaxConcurrent (">> \o ToStr(maxConcurrent)
                             \o <<") exceeds available phases (">>
                             \o IntChars(Len(phases.v.a)) \o <<")">>,
                           "MaxConcurrent", i - 1, "tasks", TRUE)>>
              ELSE <<>>)
      ELSE <<>>])

\* The issues of the twelve checks in the order validateAll pushes them.
AllIssues(cs, ws, ts) ==
  validateRequiredColumns(cs, ws, ts)
    \o validateDuplicateIDs(cs, ws, ts)
    \o validateMalformedLists(ws)
    \o validateOutOfRangeValues(cs, ts)
    \o validateBrokenJSON(cs)
    \o validateUnknownReferences(cs, ts)
    \o validateOverloadedWorkers(ws)
    \o validateSkillCoverage(ws, ts)
    \o validateMaxConcurrency(ws, ts)
    \o validatePhaseSlotSaturation(ws, ts)
    \o validateCircularCoRunGroups(ts)
    \o validateConflictingRules(ts)

CountHigh(es) == Cardinality({i \in 1..Len(es) : es[i].severity = "high"})

NoReport ==
  [isValid |-> FALSE, errors |-> <<>>, warnings |-> <<>>,
   summary |-> [totalErrors |-> 0, totalWarnings |-> 0, criticalIssues |-> 0]]

MakeReportValidWithoutWarnings(errors) ==
  LET warnings == SelectSeq(errors, LAMBDA e : e.type = "warning")
      actualErrors == SelectSeq(errors, LAMBDA e : e.type = "error") IN
  [isValid |-> Len(errors) = 0,
   errors |-> actualErrors,
   warnings |-> warnings,
   summary |-> [totalErrors |-> Len(actualErrors),
                totalWarnings |-> Len(warnings),
                criticalIssues |-> CountHigh(errors)]]

MakeReport(errors) ==
  LET warnings == SelectSeq(errors, LAMBDA e : e.type = "warning")
      actualErrors == SelectSeq(errors, LAMBDA e : e.type = "error") IN
  [isValid |-> Len(actualErrors) = 0,
   errors |-> actualErrors,
   warnings |-> warnings,
   summary |-> [totalErrors |-> Len(actualErrors),
                totalWarnings |-> Len(warnings),
                criticalIssues |-> CountHigh(errors)]]

\* validateAll: the exception of check 11 propagates to the caller, and no
\* report is returned; otherwise the report is built from all the issues.
validateAll(cs, ws, ts) ==
  IF CircularThrows(ts)
    THEN [threw |-> TRUE, result |-> NoReport]
    ELSE [threw |-> FALSE, result |-> MakeReport(AllIssues(cs, ws, ts))]

-----------------------------------------------------------------------------
(* The rows the model draws its snapshots from *)

Client(id, name, priority, requested, group, attributes) ==
  [ClientID |-> id, ClientName |-> name, PriorityLevel |-> priority,
   RequestedTaskIDs |-> requested, GroupTag |-> group, AttributesJSON |-> attributes]

Worker(id, name, skills, slots, maxLoad, group) ==
  [WorkerID |-> id, WorkerName |-> name, Skills |-> skills, AvailableSlots |-> slots,
   MaxLoadPerPhase |-> maxLoad, WorkerGroup |-> group, QualificationLevel |-> Num(1)]

Task(id, name, category, duration, skills, phases, maxConcurrent) ==
  [TaskID |-> id, TaskName |-> name, Category |-> category, Duration |-> duration,
   RequiredSkills |-> skills, PreferredPhases |-> phases, MaxConcurrent |-> maxConcurrent]

sC1 == Str(<<"C", "1">>)
sC2 == Str(<<"C", "2">>)
sW1 == Str(<<"W", "1">>)
sW2 == Str(<<"W", "2">>)
sT1 == Str(<<"T", "1">>)
sT2 == Str(<<"T", "2">>)
sT9 == Str(<<"T", "9">>)
sJs == Str(<<"j", "s">>)
sGo == Str(<<"g", "o">>)
sPy == Str(<<"p", "y">>)
sDev == Str(<<"D", "e", "v">>)

\* Rows as the file parser (lib/file-parser.ts) leaves them: an empty cell is
\* null, a numeric cell a number, a list cell an array or the string as typed.
ClientRows ==
  { Client(sC1, Str(<<"A", "c", "m", "e">>), Num(3),
           Str(<<"T", "1", ",", "T", "2">>), sDev, Null),
    Client(sC1, Str(<<"B", "o", "l", "t">>), Num(7),
           sT9, sDev, Str(<<"{", "}">>)),
    Client(sC2, Str(<<"C", "o", "r", "e">>), Num(0),
           Arr(<<sT1, sT9, sT9>>), Null, Str(<<"{", "x">>)),
    Client(Null, Null, Num(-1),
           Str(<<"T", "1", ",", " ", "T", "9", " ", ",">>), sDev, Null),
    Client(sC2, Str(<<"D", "y", "n", "e">>), Num(5),
           Null, sDev, Obj) }

workerAnn ==
  Worker(sW1, Str(<<"A", "n", "n">>), Str(<<"j", "s", ",", " ", "g", "o">>),
         Arr(<<Num(1)>>), Num(2), sDev)

WorkerRows ==
  { workerAnn,
    Worker(sW2, Str(<<"B", "o", "b">>), Arr(<<sPy>>),
           Str(<<"[", "1", ",", "2", "]">>), Num(1), sDev),
    Worker(sW1, Str(<<"C", "y">>), Null,
           Arr(<<Num(1)>>), Num(0), Null),
    Worker(Null, Str(<<"D", "e", "e">>), sJs,
           Str(<<"1", ",", "2">>), Num(3), sDev) }

TaskRows ==
  { Task(sT1, Str(<<"B", "u", "i", "l", "d">>), sDev, Num(3),
         sJs, Arr(<<Num(1)>>), Num(1)),
    Task(sT2, Str(<<"T", "e", "s", "t">>), sDev, Num(1),
         Arr(<<sJs, sGo>>), Str(<<"1", "-", "2">>), Num(2)),
    Task(sT1, Num(7), Null, Num(0),
         Null, Str(<<"[", "1", ",", "2", "]">>), Null),
    Task(sT2, Str(<<"C", "i", "r", "c", "u", "l", "a", "r">>), sDev, Num(-1),
         Str(<<"p", "y", ",", "g", "o">>), Str(<<"x", "-", "y">>), Num(3)),
    Task(Null, Null, Null, Num(5),
         sPy, Str(<<"2">>), Num(1)),
    Task(sT2, Str(<<"S", "h", "i", "p">>), Undef, Num(2),
         sGo, Arr(<<Num(2), Num(1)>>), Num(3)),
    Task(sT9, Str(<<"I", "d", "l", "e">>), sDev, Num(3),
         sJs, Arr(<<>>), Num(1)) }

\* The most rows a snapshot holds, over its three collections together.
MaxRows == 3

SeqsUpTo(S, n) == UNION {[1..k -> S] : k \in 0..n}

-----------------------------------------------------------------------------
(* The validation specification: any snapshot, then validateAll on it *)

NoRules == <<>>

Init ==
  /\ clients \in SeqsUpTo(ClientRows, MaxRows)
  /\ workers \in SeqsUpTo(WorkerRows, MaxRows - Len(clients))
  /\ tasks \in SeqsUpTo(TaskRows, MaxRows - Len(clients) - Len(workers))
  /\ outcome = "none"
  /\ report = NoReport
  /\ rules = NoRules
  /\ now = 0
  /\ validationErrors = <<>>
  /\ recommendations = <<>>
  /\ ruleSet = <<>>
  /\ query = <<>> /\ parsedQuery = <<>> /\ suggestions = <<>> /\ searchResults = <<>>
  /\ timers = <<>> /\ isValidating = FALSE

\* new ValidationEngine(clients, workers, tasks).validateAll(): the caller
\* gets the report, or the exception and no report.
CallValidateAll ==
  /\ outcome' = IF validateAll(clients, workers, tasks).threw THEN "threw" ELSE "returned"
  /\ report' = validateAll(clients, workers, tasks).result
  /\ UNCHANGED <<clients, workers, tasks, rules, now, validationErrors, recommendations,
               exportVars, searchVars, panelVars>>

Next == CallValidateAll

Spec == Init /\ [][Next]_vars

-----------------------------------------------------------------------------
(* Rules: lib/rule-types.ts *)

\* A Rule of type coRun, loadLimit, phaseWindow or slotRestriction, with the
\* fields of every variant (those of another variant keep a default). A name,
\* an id or a reason is a sequence of strings: an interpolated value character
\* by character, each literal part of a template as one string. tasks holds
\* TaskID values, workerGroup and taskId are values. patternMatch and
\* precedence rules are not drawn.
Rule(id, name, enabled, priority, type, ruleTasks, workerGroup, maxSlots, taskId, phases, minSlots) ==
  [id |-> id, name |-> name, enabled |-> enabled, priority |-> priority, type |-> type,
   tasks |-> ruleTasks, workerGroup |-> workerGroup, maxSlotsPerPhase |-> maxSlots,
   taskId |-> taskId, allowedPhases |-> phases, minCommonSlots |-> minSlots]

OverlapEvery(rule, existingRule) ==
  \A i \in 1..Len(rule.tasks) : \E j \in 1..Len(existingRule.tasks) :
    rule.tasks[i] = existingRule.tasks[j]

\* rule.tasks.some((task) => existingRule.tasks.includes(task))
Overlap(rule, existingRule) ==
  \E i \in 1..Len(rule.tasks) : \E j \in 1..Len(existingRule.tasks) :
    rule.tasks[i] = existingRule.tasks[j]

\* The reasons one existing rule adds: none when it has the candidate's id.
ConflictsWithIgnoringId(rule, existingRule) ==
  (IF existingRule.name = rule.name
     THEN << <<"Rule name \"">> \o rule.name \o <<"\" already exists">> >>
     ELSE <<>>)
  \o (IF rule.type = "coRun" /\ existingRule.type = "coRun" /\ Overlap(rule, existingRule)
     THEN << <<"Co-run rule conflicts with existing rule \"">> \o existingRule.name
             \o <<"\"">> >>
     ELSE <<>>)
  \o (IF rule.type = "loadLimit" /\ existingRule.type = "loadLimit"
        /\ rule.workerGroup = existingRule.workerGroup
     THEN << <<"Load limit for group \"">> \o ToStr(rule.workerGroup)
             \o <<"\" already exists">> >>
     ELSE <<>>)
  \o (IF rule.type = "phaseWindow" /\ existingRule.type = "phaseWindow"
        /\ rule.taskId = existingRule.taskId
     THEN << <<"Phase window for task \"">> \o ToStr(rule.taskId)
             \o <<"\" already exists">> >>
     ELSE <<>>)

ConflictsWith(rule, existingRule) ==
  IF existingRule.id = rule.id THEN <<>>
  ELSE ConflictsWithIgnoringId(rule, existingRule)

findConflicts(rule, existingRules) ==
  ConcatAll([i \in 1..Len(existingRules) |-> ConflictsWith(rule, existingRules[i])])

\* The structural reasons of validateRule, before the conflicts.
StructuralErrors(rule) ==
  (IF Trim(rule.name) = <<>> THEN << <<"Rule name is required">> >> ELSE <<>>)
  \o (IF LessThan(rule.priority, 1) \/ GreaterThan(rule.priority, 100)
     THEN << <<"Priority must be between 1 and 100">> >> ELSE <<>>)
  \o (CASE rule.type = "coRun" ->
             IF Len(rule.tasks) < 2
               THEN << <<"Co-run rules must include at least 2 tasks">> >> ELSE <<>>
        [] rule.type = "slotRestriction" ->
             IF rule.minCommonSlots < 1
               THEN << <<"Minimum common slots must be at least 1">> >> ELSE <<>>
        [] rule.type = "loadLimit" ->
             IF rule.maxSlotsPerPhase < 1
               THEN << <<"Maximum slots per phase must be at least 1">> >> ELSE <<>>
        [] rule.type = "phaseWindow" ->
             IF Len(rule.allowedPhases) = 0
               THEN << <<"Phase window must include at least one phase">> >> ELSE <<>>
        [] OTHER -> <<>>)

validateRule(rule, existingRules) ==
  LET errors == StructuralErrors(rule) \o findConflicts(rule, existingRules) IN
  [isValid |-> Len(errors) = 0, errors |-> errors]

-----------------------------------------------------------------------------
(* The AI engine's workload recommendations: lib/ai-engine.ts *)

\* slotCount of one worker
slotCountOf(worker) ==
  LET availableSlots == worker.AvailableSlots IN
  IF IsArray(availableSlots) THEN Len(availableSlots.a)
  ELSE IF IsString(availableSlots)
    THEN IF JSONThrows(availableSlots.s) THEN 0
         ELSE IF IsArray(JSONParse(availableSlots.s))
                THEN Len(JSONParse(availableSlots.s).a) ELSE 0
    ELSE 0

maxLoadOf(worker) ==
  IF Truthy(worker.MaxLoadPerPhase) /\ IsNumber(worker.MaxLoadPerPhase)
    THEN worker.MaxLoadPerPhase.n ELSE 1

\* workerLoads holds the worker: maxLoad > slotCount && slotCount > 0
InWorkerLoads(worker) ==
  maxLoadOf(worker) > slotCountOf(worker) /\ slotCountOf(worker) > 0

\* One recommendation per key of workerLoads (the last worker written under a
\* WorkerID gives the ratio, the first gives the position) whose
\* ratio maxLoad / slotCount exceeds 1.5; suggestedMaxLoad is Math.floor(ratio).
generateWorkloadRecommendations(ws) ==
  LET loaded == SelectSeq([i \in 1..Len(ws) |-> i], LAMBDA i : InWorkerLoads(ws[i]))
      sameKey(i, j) == SameValueZero(ws[i].WorkerID, ws[j].WorkerID)
      firsts == SelectSeq(loaded, LAMBDA i :
                  \A k \in 1..Len(loaded) : sameKey(loaded[k], i) => loaded[k] >= i)
      lastOf(i) == CHOOSE j \in {loaded[k] : k \in 1..Len(loaded)} :
                     /\ sameKey(i, j)
                     /\ \A k \in 1..Len(loaded) : sameKey(loaded[k], i) => loaded[k] <= j
      over == SelectSeq(firsts, LAMBDA i :
                2 * maxLoadOf(ws[lastOf(i)]) > 3 * slotCountOf(ws[lastOf(i)]))
  IN [k \in 1..Len(over) |->
        [id |-> <<"workload_">> \o ToStr(ws[over[k]].WorkerID),
         title |-> <<"Reduce load for worker ">> \o ToStr(ws[over[k]].WorkerID),
         autoApplicable |-> TRUE,
         workerId |-> ws[over[k]].WorkerID,
         suggestedMaxLoad |-> maxLoadOf(ws[lastOf(over[k])])
                                \div slotCountOf(ws[lastOf(over[k])])]]

-----------------------------------------------------------------------------
(* The rule collection: app/page.tsx, RuleManagement, RuleBuilder, AIAssistant *)

\* Bounds of the rule specification.
MaxRules == 2
MaxClock == 1

cA == <<"A">>
cB == <<"B">>

\* The store the rule screens run over: the AI engine exists (the store is
\* not empty) and worker W1 carries more load than it has slots.
RuleStoreClients == <<>>
RuleStoreWorkers == <<workerAnn>>
RuleStoreTasks ==
  << Task(sT1, Str(<<"B", "u", "i", "l", "d">>), sDev, Num(3), sJs, Arr(<<Num(1)>>), Num(1)),
     Task(sT2, Str(<<"T", "e", "s", "t">>), sDev, Num(1), sJs, Arr(<<Num(1)>>), Num(1)),
     Task(sT9, Str(<<"S", "h", "i", "p">>), sDev, Num(1), sGo, Arr(<<Num(2)>>), Num(1)) >>

\* The builder's form state when Create Rule is pressed. The priority is
\* Number.parseInt of the priority field: NaN when the field is empty.
Form(ruleType, ruleName, priority, selected, minSlots, workerGroup, maxSlots, taskId, phases) ==
  [ruleType |-> ruleType, ruleName |-> ruleName, priority |-> priority,
   enabled |-> TRUE, selectedTasks |-> selected, minCommonSlots |-> minSlots,
   workerGroup |-> workerGroup, maxSlotsPerPhase |-> maxSlots,
   selectedTaskId |-> taskId, allowedPhases |-> phases]

BuilderForms ==
  { Form("coRun", cA, Num(50), <<sT1, sT2>>, 1, Str(<<>>), 3, Str(<<>>), <<>>),
    Form("coRun", cB, Num(50), <<sT2, sT9>>, 1, Str(<<>>), 3, Str(<<>>), <<>>),
    Form("coRun", cA, Num(0), <<sT9>>, 1, Str(<<>>), 3, Str(<<>>), <<>>),
    Form("loadLimit", cB, NaN, <<>>, 1, sDev, 3, Str(<<>>), <<>>),
    Form("phaseWindow", <<" ">>, Num(101), <<>>, 1, Str(<<>>), 3, sT1, <<>>) }

\* buildRule: the rule of the form, with the id of this millisecond.
buildRule(form, clock) ==
  Rule(<<"rule_">> \o NatChars(clock), form.ruleName, form.enabled, form.priority,
       form.ruleType,
       IF form.ruleType = "coRun" THEN form.selectedTasks ELSE <<>>,
       IF form.ruleType = "loadLimit" THEN form.workerGroup ELSE Undef,
       IF form.ruleType = "loadLimit" THEN form.maxSlotsPerPhase ELSE 0,
       IF form.ruleType = "phaseWindow" THEN form.selectedTaskId ELSE Undef,
       IF form.ruleType = "phaseWindow" THEN form.allowedPhases ELSE <<>>,
       IF form.ruleType = "slotRestriction" THEN form.minCommonSlots ELSE 0)

\* What parseNaturalLanguageRule returns on success: convertAIResponseToRule
\* applied to the language model's answer (priority || 50, tasks || []).
Draft(name, priority, type, draftTasks, workerGroup, maxSlotsPerPhase) ==
  [name |-> name, priority |-> priority, type |-> type, tasks |-> draftTasks,
   workerGroup |-> workerGroup, maxSlotsPerPhase |-> maxSlotsPerPhase]

AIDrafts ==
  { Draft(cA, Num(50), "coRun", <<sT1, sT2>>, Undef, 0),
    Draft(cB, Num(150), "coRun", <<sT1>>, Undef, 0),
    Draft(cB, Num(50), "coRun", <<sT1, sT1>>, Undef, 0) }

aiRuleOfDraft(draft, clock) ==
  Rule(<<"ai_rule_">> \o NatChars(clock), draft.name, TRUE, draft.priority, draft.type,
       draft.tasks, draft.workerGroup, draft.maxSlotsPerPhase, Undef, <<>>, 0)

aiRuleOfRecommendation(recommendation, clock) ==
  Rule(<<"ai_rule_">> \o NatChars(clock), <<"Auto: ">> \o recommendation.title, TRUE, Num(60),
       "loadLimit", <<>>,
       IF Truthy(recommendation.workerId) THEN recommendation.workerId
       ELSE Str(<<"B", "a", "c", "k", "e", "n", "d">>),
       IF recommendation.suggestedMaxLoad # 0 THEN recommendation.suggestedMaxLoad ELSE 3,
       Undef, <<>>, 0)

InitRules ==
  /\ clients = RuleStoreClients
  /\ workers = RuleStoreWorkers
  /\ tasks = RuleStoreTasks
  /\ outcome = "none"
  /\ report = NoReport
  /\ rules = NoRules
  /\ now = 0
  /\ validationErrors = <<>>
  /\ recommendations = <<>>
  /\ ruleSet = <<>>
  /\ query = <<>> /\ parsedQuery = <<>> /\ suggestions = <<>> /\ searchResults = <<>>
  /\ timers = <<>> /\ isValidating = FALSE

store == <<clients, workers, tasks, outcome, report>>

\* A millisecond passes.
Tick ==
  /\ now < MaxClock
  /\ now' = now + 1
  /\ UNCHANGED <<store, rules, validationErrors, recommendations,
               exportVars, searchVars, panelVars>>

BuilderCreateKeepsRejected(form) ==
  /\ form.ruleName # <<>>
  /\ LET rule == buildRule(form, now)
         validation == validateRule(rule, rules) IN
     /\ Len(rules) < MaxRules
     /\ rules' = Append(rules, rule)
     /\ validationErrors' = validation.errors
  /\ UNCHANGED <<store, now, recommendations,
               exportVars, searchVars, panelVars>>

\* RuleBuilder.handleCreateRule, then RuleManagement.handleCreateRule. The
\* button is disabled while the type or the name is empty.
BuilderCreate(form) ==
  /\ form.ruleName # <<>>
  /\ LET rule == buildRule(form, now)
         validation == validateRule(rule, rules) IN
     IF ~validation.isValid
       THEN /\ validationErrors' = validation.errors
            /\ rules' = rules
       ELSE /\ Len(rules) < MaxRules
            /\ rules' = Append(rules, rule)
            /\ validationErrors' = <<>>
  /\ UNCHANGED <<store, now, recommendations,
               exportVars, searchVars, panelVars>>

\* The effect of AIAssistant on [clients, workers, tasks, rules].
LoadRecommendations ==
  /\ Len(clients) > 0 \/ Len(workers) > 0 \/ Len(tasks) > 0
  /\ recommendations' = generateWorkloadRecommendations(workers)
  /\ UNCHANGED <<store, rules, now, validationErrors,
               exportVars, searchVars, panelVars>>

\* AIAssistant.handleNaturalLanguageRule, then HomePage.handleRuleCreate.
NaturalLanguageRule(draft) ==
  /\ Len(clients) > 0 \/ Len(workers) > 0 \/ Len(tasks) > 0
  /\ Len(rules) < MaxRules
  /\ rules' = Append(rules, aiRuleOfDraft(draft, now))
  /\ UNCHANGED <<store, now, validationErrors, recommendations,
               exportVars, searchVars, panelVars>>

\* AIAssistant.handleApplyRecommendation on a loadLimit recommendation, then
\* HomePage.handleRuleCreate.
ApplyRecommendation(i) ==
  /\ recommendations[i].autoApplicable
  /\ Len(rules) < MaxRules
  /\ rules' = Append(rules, aiRuleOfRecommendation(recommendations[i], now))
  /\ recommendations' = SelectSeq(recommendations,
                                  LAMBDA r : r.id # recommendations[i].id)
  /\ UNCHANGED <<store, now, validationErrors,
               exportVars, searchVars, panelVars>>

\* RuleManagement.handleDuplicateRule
DuplicateRule(i) ==
  /\ Len(rules) < MaxRules
  /\ rules' = Append(rules, [rules[i] EXCEPT !.id = <<"rule_">> \o NatChars(now),
                                             !.name = rules[i].name \o <<" (Copy)">>])
  /\ UNCHANGED <<store, now, validationErrors, recommendations,
               exportVars, searchVars, panelVars>>

\* RuleManagement.handleToggleRule
ToggleRule(i) ==
  /\ rules' = [k \in 1..Len(rules) |->
                 IF rules[k].id = rules[i].id
                   THEN [rules[k] EXCEPT !.enabled = ~rules[k].enabled] ELSE rules[k]]
  /\ UNCHANGED <<store, now, validationErrors, recommendations,
               exportVars, searchVars, panelVars>>

\* RuleManagement.handleDeleteRule
DeleteRule(i) ==
  /\ rules' = SelectSeq(rules, LAMBDA r : r.id # rules[i].id)
  /\ UNCHANGED <<store, now, validationErrors, recommendations,
               exportVars, searchVars, panelVars>>

NextRules ==
  \/ Tick
  \/ \E form \in BuilderForms : BuilderCreate(form)
  \/ LoadRecommendations
  \/ \E draft \in AIDrafts : NaturalLanguageRule(draft)
  \/ \E i \in 1..Len(recommendations) : ApplyRecommendation(i)
  \/ \E i \in 1..Len(rules) : DuplicateRule(i)
  \/ \E i \in 1..Len(rules) : ToggleRule(i)
  \/ \E i \in 1..Len(rules) : DeleteRule(i)

SpecRules == InitRules /\ [][NextRules]_vars

-----------------------------------------------------------------------------
(* Properties of the validation engine, over Spec *)

snapshot == [clients |-> clients, workers |-> workers, tasks |-> tasks]

IdFieldOf(entityType) ==
  CASE entityType = "clients" -> "ClientID"
    [] entityType = "workers" -> "WorkerID"
    [] entityType = "tasks" -> "TaskID"

NumberOfIssues(es, P(_)) == Cardinality({k \in 1..Len(es) : P(es[k])})

NonEmpty(v) == v.t \notin {"undef", "null"} /\ v # Str(<<>>)

\* C1: validateAll never throws, whatever the types found in the rows of the
\* snapshot.
C1_NeverThrows == outcome # "threw"

\* C3: in every report validateAll returns, errors and warnings hold exactly
\* the issues classified error and warning, isValid is true exactly when errors
\* is empty, and the summary counts the errors, the warnings and the
\* high-severity issues of both lists.
C3_ReportStructure ==
  outcome = "returned" =>
    /\ \A k \in 1..Len(report.errors) : report.errors[k].type = "error"
    /\ \A k \in 1..Len(report.warnings) : report.warnings[k].type = "warning"
    /\ \A k \in 1..Len(AllIssues(clients, workers, tasks)) :
         LET e == AllIssues(clients, workers, tasks)[k]
             same(x) == x = e IN
         NumberOfIssues(report.errors, same) + NumberOfIssues(report.warnings, same)
           = NumberOfIssues(AllIssues(clients, workers, tasks), same)
    /\ Len(report.errors) + Len(report.warnings) = Len(AllIssues(clients, workers, tasks))
    /\ report.isValid <=> report.errors = <<>>
    /\ report.summary.totalErrors = Len(report.errors)
    /\ report.summary.totalWarnings = Len(report.warnings)
    /\ report.summary.criticalIssues
         = Cardinality({k \in 1..Len(report.errors) : report.errors[k].severity = "high"})
           + Cardinality({k \in 1..Len(report.warnings) :
                            report.warnings[k].severity = "high"})

\* A returned report with no error, a warning and no validity lost to it.
C3_Witness ==
  /\ outcome = "returned"
  /\ report.errors = <<>>
  /\ report.warnings # <<>>
  /\ report.isValid

RequestedEntries(client) == CommaList(client.RequestedTaskIDs)

UnknownEntry(entry) ==
  NonEmpty(entry) /\ \A j \in 1..Len(tasks) : tasks[j].TaskID # entry

\* C5: once validateAll has run, its report holds, for every client and every
\* entry of its requested-task list, one unknown-reference error naming the
\* entry at the client's row index exactly when the entry is non-empty and is
\* the TaskID of no task.
C5_UnknownReferences ==
  outcome # "none" =>
    \A i \in 1..Len(clients) :
      \A n \in 1..Len(RequestedEntries(clients[i])) :
        LET entry == RequestedEntries(clients[i])[n]
            naming(e) == /\ e.id[1] = "unknown-task-" /\ e.rowIndex = i - 1
                         /\ e.message = <<"Unknown TaskID reference: ">> \o ToStr(entry)
            same == {m \in 1..Len(RequestedEntries(clients[i])) :
                       RequestedEntries(clients[i])[m] = entry} IN
        NumberOfIssues(report.errors, naming)
          = IF UnknownEntry(entry) THEN Cardinality(same) ELSE 0

\* The same statement over the reports validateAll returns.
C5_WhenReturned == outcome = "threw" \/ C5_UnknownReferences

RECURSIVE SumOf(_)
SumOf(ns) == IF ns = <<>> THEN 0 ELSE Head(ns) + SumOf(Tail(ns))

\* The phases a slot list or a preferred-phase value names.
SlotListOf(worker) ==
  LET slots == ParseOrArray(worker.AvailableSlots) IN
  IF NonEmpty(worker.AvailableSlots) /\ ~slots.threw /\ IsArray(slots.v)
    THEN {slots.v.a[k] : k \in 1..Len(slots.v.a)} ELSE {}

PreferredOf(task) ==
  LET phases == PhasesOf(task.PreferredPhases) IN
  IF NonEmpty(task.PreferredPhases) /\ ~phases.threw /\ IsArray(phases.v)
    THEN {phases.v.a[k] : k \in 1..Len(phases.v.a)} ELSE {}

NumberIn(v) == IF v.t = "num" THEN v.n ELSE 0

\* capacity(p): the sum of the max load of every worker whose slot list
\* contains p; demand(p): the sum of the duration of every task whose
\* preferred phases contain p.
capacity(p) ==
  SumOf([i \in 1..Len(workers) |->
           IF Num(p) \in SlotListOf(workers[i])
             THEN NumberIn(workers[i].MaxLoadPerPhase) ELSE 0])

demand(p) ==
  SumOf([i \in 1..Len(tasks) |->
           IF Num(p) \in PreferredOf(tasks[i]) THEN NumberIn(tasks[i].Duration) ELSE 0])

PhaseRange == 0..4

\* C6: a report validateAll returns holds exactly one high-severity saturation
\* error for each phase whose demand exceeds its capacity, and none for any
\* other phase.
C6_Saturation ==
  outcome = "returned" =>
    /\ \A p \in PhaseRange :
         LET forPhase(e) == e.id = <<"phase-saturation-">> \o IntChars(p) IN
         /\ NumberOfIssues(report.errors, forPhase)
              = IF demand(p) > capacity(p) THEN 1 ELSE 0
         /\ \A k \in 1..Len(report.errors) :
              forPhase(report.errors[k]) => report.errors[k].severity = "high"
    /\ \A k \in 1..Len(report.errors) :
         report.errors[k].id[1] = "phase-saturation-" =>
           \E p \in PhaseRange : report.errors[k].id = <<"phase-saturation-">> \o IntChars(p)

\* C7: a report validateAll returns holds exactly one medium-severity,
\* auto-fixable error naming PriorityLevel at the row of every client whose
\* numeric priority lies outside 1..5, exactly one naming Duration at the row
\* of every task whose numeric duration is below 1, and none for another row.
C7_OutOfRange ==
  outcome = "returned" =>
    /\ \A i \in 1..Len(clients) :
         LET priority == clients[i].PriorityLevel
             flagged(e) == /\ e.id[1] = "priority-range-" /\ e.rowIndex = i - 1
                           /\ e.field = "PriorityLevel" /\ e.severity = "medium"
                           /\ e.autoFixable IN
         NumberOfIssues(report.errors, flagged)
           = IF priority.t = "num" /\ (priority.n < 1 \/ priority.n > 5) THEN 1 ELSE 0
    /\ \A i \in 1..Len(tasks) :
         LET duration == tasks[i].Duration
             flagged(e) == /\ e.id[1] = "duration-range-" /\ e.rowIndex = i - 1
                           /\ e.field = "Duration" IN
         NumberOfIssues(report.errors, flagged)
           = IF duration.t = "num" /\ duration.n < 1 THEN 1 ELSE 0

\* A preferred-phase value that declares a list of phases: an array, a JSON
\* array, or a dash range a-b of two numbers.
DeclaresPhases(v) ==
  \/ IsArray(v)
  \/ /\ IsString(v) /\ Includes(v.s, <<"-">>)
     /\ Len(Split(v.s, "-")) = 2
     /\ \A k \in 1..2 : Trim(Split(v.s, "-")[k]) # <<>> /\ NumberOf(Split(v.s, "-")[k]).t = "num"
  \/ /\ IsString(v) /\ ~Includes(v.s, <<"-">>)
     /\ ~JSONThrows(v.s) /\ IsArray(JSONParse(v.s))

NumberOfPhases(task) == Len(PhasesOf(task.PreferredPhases).v.a)

\* C22: for every task that declares preferred phases, a duration and a
\* max-concurrent, a report validateAll returns holds a medium-severity
\* duration warning for the task exactly when its duration exceeds twice the
\* number of its preferred phases, and a medium-severity max-concurrent
\* warning exactly when its max-concurrent exceeds that number, an empty list
\* of phases included.
C22_PhaseWindowWarnings ==
  outcome = "returned" =>
    \A i \in 1..Len(tasks) :
      LET task == tasks[i]
          long(e) == /\ e.id = <<"conflicting-rules-">> \o IntChars(i - 1)
                     /\ e.severity = "medium" /\ e.field = "Duration"
          wide(e) == /\ e.id = <<"concurrent-phase-conflict-">> \o IntChars(i - 1)
                     /\ e.severity = "medium" /\ e.field = "MaxConcurrent" IN
      (DeclaresPhases(task.PreferredPhases) /\ task.Duration.t = "num"
         /\ task.MaxConcurrent.t = "num") =>
        /\ NumberOfIssues(report.warnings, long)
             = IF task.Duration.n > 2 * NumberOfPhases(task) THEN 1 ELSE 0
        /\ NumberOfIssues(report.warnings, wide)
             = IF task.MaxConcurrent.n > NumberOfPhases(task) THEN 1 ELSE 0

\* The same for the tasks whose list of phases is not empty and whose
\* duration and max-concurrent are not 0.
C22_NonEmptyLists ==
  outcome = "returned" =>
    \A i \in 1..Len(tasks) :
      LET task == tasks[i]
          long(e) == /\ e.id = <<"conflicting-rules-">> \o IntChars(i - 1)
                     /\ e.severity = "medium" /\ e.field = "Duration"
          wide(e) == /\ e.id = <<"concurrent-phase-conflict-">> \o IntChars(i - 1)
                     /\ e.severity = "medium" /\ e.field = "MaxConcurrent" IN
      (DeclaresPhases(task.PreferredPhases) /\ task.Duration.t = "num"
         /\ task.MaxConcurrent.t = "num" /\ NumberOfPhases(task) > 0
         /\ task.Duration.n # 0 /\ task.MaxConcurrent.n # 0) =>
        /\ NumberOfIssues(report.warnings, long)
             = IF task.Duration.n > 2 * NumberOfPhases(task) THEN 1 ELSE 0
        /\ NumberOfIssues(report.warnings, wide)
             = IF task.MaxConcurrent.n > NumberOfPhases(task) THEN 1 ELSE 0

IntegerArray(v) == IsArray(v) /\ \A k \in 1..Len(v.a) : v.a[k].t = "num"

\* A well-formed dash range a-b with a <= b.
DashRange(v) ==
  /\ IsString(v) /\ Len(Split(v.s, "-")) = 2
  /\ \A k \in 1..2 : AllDigits(Trim(Split(v.s, "-")[k]))
  /\ DigitsVal(Trim(Split(v.s, "-")[1]), 0) <= DigitsVal(Trim(Split(v.s, "-")[2]), 0)

RowsExcept(rows, i) == SubSeq(rows, 1, i - 1) \o SubSeq(rows, i + 1, Len(rows))

\* A PreferredPhases value that is present and cannot be parsed.
Unparseable(v) ==
  /\ NonEmpty(v)
  /\ ~IntegerArray(v)
  /\ ~(IsString(v) /\ ~JSONThrows(v.s) /\ IntegerArray(JSONParse(v.s)))
  /\ ~DashRange(v)

\* C23: for every task with a duration whose PreferredPhases cannot be
\* parsed, a report validateAll returns holds exactly one low-severity
\* warning on PreferredPhases at the task's row index, and the task adds
\* nothing to the demand of any phase; strings that contain a dash included.
C23_PhaseFormat ==
  outcome = "returned" =>
    \A i \in 1..Len(tasks) :
      LET format(e) == /\ e.id = <<"phase-format-">> \o IntChars(i - 1)
                       /\ e.severity = "low" /\ e.field = "PreferredPhases"
                       /\ e.rowIndex = i - 1 IN
      (tasks[i].Duration.t = "num" /\ Unparseable(tasks[i].PreferredPhases)) =>
        /\ NumberOfIssues(report.warnings, format) = 1
        /\ phaseDemandOf(tasks) = phaseDemandOf(RowsExcept(tasks, i))

\* The same for the values that are strings without a dash, on a task whose
\* duration is not 0.
C23_WithoutDash ==
  outcome = "returned" =>
    \A i \in 1..Len(tasks) :
      LET format(e) == /\ e.id = <<"phase-format-">> \o IntChars(i - 1)
                       /\ e.severity = "low" /\ e.field = "PreferredPhases"
                       /\ e.rowIndex = i - 1 IN
      (tasks[i].Duration.t = "num" /\ tasks[i].Duration.n # 0
         /\ Unparseable(tasks[i].PreferredPhases)
         /\ IsString(tasks[i].PreferredPhases)
         /\ ~Includes(tasks[i].PreferredPhases.s, <<"-">>)) =>
        /\ NumberOfIssues(report.warnings, format) = 1
        /\ phaseDemandOf(tasks) = phaseDemandOf(RowsExcept(tasks, i))

\* C27: in a report validateAll returns, the identifiers of the issues of
\* errors and warnings together are pairwise distinct, also when a client
\* lists one unknown task twice or a task lists one uncovered skill twice.
C27_DistinctIds ==
  outcome = "returned" =>
    LET all == report.errors \o report.warnings IN
    \A i, j \in 1..Len(all) : all[i].id = all[j].id => i = j

-----------------------------------------------------------------------------
(* Properties of the rule collection, over SpecRules *)

FromAI(rule) == rule.id[1] = "ai_rule_"

\* C8: a step that adds an AI-originated rule to the collection adds a rule
\* that validateRule accepts against the collection as it was before the step.
C8_AIRulesValidated ==
  [][(/\ Len(rules') = Len(rules) + 1
      /\ SubSeq(rules', 1, Len(rules)) = rules
      /\ FromAI(rules'[Len(rules')]))
       => validateRule(rules'[Len(rules')], rules).isValid]_vars

\* C9: no two rules of the collection have the same name.
C9_UniqueNames ==
  \A i \in 1..Len(rules) : \A j \in 1..Len(rules) :
    i # j => rules[i].name # rules[j].name

coRunReason(existingRule) ==
  <<"Co-run rule conflicts with existing rule \"">> \o existingRule.name \o <<"\"">>

CoRunReasons(errors) ==
  SelectSeq(errors, LAMBDA e : e[1] = "Co-run rule conflicts with existing rule \"")

SharesTask(rule, existingRule) ==
  {rule.tasks[k] : k \in 1..Len(rule.tasks)}
    \cap {existingRule.tasks[k] : k \in 1..Len(existingRule.tasks)} # {}

\* The candidates validateRule may be given in a state: what the builder would
\* build now from each form, and each rule of the collection itself.
Candidates ==
  {buildRule(form, now) : form \in BuilderForms} \cup {rules[i] : i \in 1..Len(rules)}

\* C10: validateRule on a co-run candidate gives one co-run conflict reason for
\* each existing co-run rule with another id that shares a task with it, is
\* then not valid, and gives the reasons it would give if the existing rules
\* with the candidate's own id were not in the collection.
C10_CoRunConflicts ==
  \A candidate \in Candidates :
    candidate.type = "coRun" =>
      LET validation == validateRule(candidate, rules)
          conflicting == SelectSeq(rules, LAMBDA r :
                           r.type = "coRun" /\ r.id # candidate.id
                             /\ SharesTask(candidate, r))
          others == SelectSeq(rules, LAMBDA r : r.id # candidate.id) IN
      /\ CoRunReasons(validation.errors)
           = [k \in 1..Len(conflicting) |-> coRunReason(conflicting[k])]
      /\ conflicting # <<>> => ~validation.isValid
      /\ validation.errors = validateRule(candidate, others).errors

\* The builder has rejected a co-run candidate with two co-run conflict
\* reasons, one for each of the two rules of the collection.
C10_Witness ==
  /\ Len(rules) = 2
  /\ Len(CoRunReasons(validationErrors)) = 2

\* The rules the AI assistant would hand over now, one for each draft.
AICandidates == {aiRuleOfDraft(draft, now) : draft \in AIDrafts}

DistinctTasks(rule) == {rule.tasks[k] : k \in 1..Len(rule.tasks)}

\* C11: validateRule rejects every co-run candidate whose task list holds
\* fewer than two distinct task identifiers, and its structural part accepts a
\* co-run candidate only when it has at least two distinct task identifiers.
C11_DistinctTasks ==
  \A candidate \in Candidates \cup AICandidates :
    candidate.type = "coRun" =>
      /\ Cardinality(DistinctTasks(candidate)) < 2
           => ~validateRule(candidate, rules).isValid
      /\ StructuralErrors(candidate) = <<>>
           => Cardinality(DistinctTasks(candidate)) >= 2

\* C12: a step of the rule builder that rejects its candidate leaves the rule
\* collection, the store, the clock and the recommendations as they were and
\* sets the builder's reasons to the reasons of validateRule.
C12_RejectionNoSideEffect ==
  [][\A form \in BuilderForms :
       (BuilderCreate(form) /\ ~validateRule(buildRule(form, now), rules).isValid)
         => /\ rules' = rules
            /\ validationErrors' = validateRule(buildRule(form, now), rules).errors
            /\ UNCHANGED <<store, now, recommendations, exportVars, searchVars, panelVars>>]_vars

\* The builder has rejected a candidate against a collection of two rules and
\* shows the reasons.
C12_Witness ==
  /\ Len(rules) = 2
  /\ validationErrors # <<>>

\* The conflicts findConflicts looks for between two rules, names aside.
InConflict(rule, other) ==
  \/ rule.type = "coRun" /\ other.type = "coRun" /\ SharesTask(rule, other)
  \/ rule.type = "loadLimit" /\ other.type = "loadLimit"
       /\ rule.workerGroup = other.workerGroup
  \/ rule.type = "phaseWindow" /\ other.type = "phaseWindow"
       /\ rule.taskId = other.taskId

IsCopy(rule) == rule.name[Len(rule.name)] = " (Copy)"

\* C28: the rules of the collection that the rule operations made (created
\* through the builder or duplicated, whatever was toggled or deleted since)
\* are pairwise free of the conflicts findConflicts detects between rules of
\* different ids: no two co-run rules share a task, no two load-limit rules
\* name the same worker group, no two phase-window rules name the same task.
C28_ConflictFree ==
  \A i \in 1..Len(rules) : \A j \in 1..Len(rules) :
    (/\ i # j /\ rules[i].id # rules[j].id
     /\ ~FromAI(rules[i]) /\ ~FromAI(rules[j]))
      => ~InConflict(rules[i], rules[j])

\* The part of C28 that holds: two rules the builder created in different
\* milliseconds are free of conflicts.
C28_BuilderRules ==
  \A i \in 1..Len(rules) : \A j \in 1..Len(rules) :
    (/\ i # j /\ rules[i].id # rules[j].id
     /\ ~FromAI(rules[i]) /\ ~FromAI(rules[j])
     /\ ~IsCopy(rules[i]) /\ ~IsCopy(rules[j]))
      => ~InConflict(rules[i], rules[j])

-----------------------------------------------------------------------------
(* Export of the rule set: RuleValidator.generateRuleSet *)

\* rules.reduce(...): the number of rules of each type, by first occurrence.
RECURSIVE ruleTypesOf(_)
ruleTypesOf(rs) ==
  IF rs = <<>> THEN <<>>
  ELSE AddTo(ruleTypesOf(SubSeq(rs, 1, Len(rs) - 1)), rs[Len(rs)].type, 1)

\* The comparator (a, b) => b.priority - a.priority: a NaN result counts as 0.
comparePriority(a, b) ==
  IF a.priority.t = "num" /\ b.priority.t = "num"
    THEN b.priority.n - a.priority.n ELSE 0

\* The comparator is a consistent one when "compares equal" is transitive.
ConsistentComparator(rs) ==
  \A i, j, k \in 1..Len(rs) :
    (comparePriority(rs[i], rs[j]) = 0 /\ comparePriority(rs[j], rs[k]) = 0)
      => comparePriority(rs[i], rs[k]) = 0

\* A stable sort under a consistent comparator.
RECURSIVE InsertByPriority(_, _)
InsertByPriority(sorted, x) ==
  IF sorted = <<>> THEN <<x>>
  ELSE IF comparePriority(sorted[Len(sorted)], x) <= 0 THEN Append(sorted, x)
  ELSE Append(InsertByPriority(SubSeq(sorted, 1, Len(sorted) - 1), x), sorted[Len(sorted)])

RECURSIVE StableSort(_)
StableSort(rs) ==
  IF rs = <<>> THEN <<>>
  ELSE InsertByPriority(StableSort(SubSeq(rs, 1, Len(rs) - 1)), rs[Len(rs)])

\* Array.prototype.sort: the stable order under a consistent comparator, and
\* an order the implementation chooses (some permutation) otherwise.
SortOutcomes(rs) ==
  IF ConsistentComparator(rs) THEN {StableSort(rs)}
  ELSE {[i \in 1..Len(rs) |-> rs[f[i]]] : f \in Permutations(1..Len(rs))}

\* The manifests generateRuleSet may return (createdAt is not modelled).
generateRuleSet(rs) ==
  LET enabledRules == SelectSeq(rs, LAMBDA r : r.enabled) IN
  {[version |-> "1.0.0",
    rules |-> sorted,
    metadata |-> [totalRules |-> Len(rs),
                  enabledRules |-> Len(enabledRules),
                  ruleTypes |-> ruleTypesOf(rs)]] : sorted \in SortOutcomes(enabledRules)}

\* The most rules the exported collection holds.
MaxExport == 3

\* Rules the screens of SpecRules build, at different milliseconds, one of
\* them disabled since.
ExportRules ==
  { buildRule(Form("coRun", cA, Num(50), <<sT1, sT2>>, 1, Str(<<>>), 3, Str(<<>>), <<>>), 0),
    buildRule(Form("loadLimit", cB, NaN, <<>>, 1, sDev, 3, Str(<<>>), <<>>), 1),
    aiRuleOfRecommendation(generateWorkloadRecommendations(RuleStoreWorkers)[1], 0),
    aiRuleOfDraft(Draft(cB, Num(150), "coRun", <<sT1>>, Undef, 0), 2),
    [buildRule(Form("coRun", cB, Num(60), <<sT2, sT9>>, 1, Str(<<>>), 3, Str(<<>>), <<>>), 2)
       EXCEPT !.enabled = FALSE],
    buildRule(Form("phaseWindow", <<"C">>, Num(50), <<>>, 1, Str(<<>>), 3, sT1, <<1>>), 3) }

InitExport ==
  /\ clients = RuleStoreClients
  /\ workers = RuleStoreWorkers
  /\ tasks = RuleStoreTasks
  /\ outcome = "none"
  /\ report = NoReport
  /\ rules \in {rs \in SeqsUpTo(ExportRules, MaxExport) :
                  \A i, j \in 1..Len(rs) : i # j => rs[i] # rs[j]}
  /\ now = 0
  /\ validationErrors = <<>>
  /\ recommendations = <<>>
  /\ ruleSet = <<>>
  /\ query = <<>> /\ parsedQuery = <<>> /\ suggestions = <<>> /\ searchResults = <<>>
  /\ timers = <<>> /\ isValidating = FALSE

\* RuleManagement.generateRuleSet: the button is disabled on an empty
\* collection; the manifest is downloaded.
GenerateRuleSet ==
  /\ Len(rules) # 0
  /\ \E manifest \in generateRuleSet(rules) : ruleSet' = <<manifest>>
  /\ UNCHANGED <<store, rules, now, validationErrors, recommendations,
                 searchVars, panelVars>>

NextExport == GenerateRuleSet

SpecExport == InitExport /\ [][NextExport]_vars

PositionIn(rs, r) == CHOOSE i \in 1..Len(rs) : rs[i] = r

\* C13: the manifest holds exactly the enabled rules, by non-increasing
\* priority, rules of equal priority in their order in the input, and its
\* metadata count the input rules and the enabled ones.
C13_RuleSet ==
  ruleSet # <<>> =>
    LET out == ruleSet[1].rules IN
    /\ {out[i] : i \in 1..Len(out)} = {rules[i] : i \in 1..Len(rules)} \cap {r \in ExportRules : r.enabled}
    /\ Len(out) = Cardinality({i \in 1..Len(rules) : rules[i].enabled})
    /\ \A i, j \in 1..Len(out) :
         (i < j /\ out[i].priority.t = "num" /\ out[j].priority.t = "num")
           => /\ out[i].priority.n >= out[j].priority.n
              /\ out[i].priority.n = out[j].priority.n
                   => PositionIn(rules, out[i]) < PositionIn(rules, out[j])
    /\ ruleSet[1].metadata.totalRules = Len(rules)
    /\ ruleSet[1].metadata.enabledRules = Cardinality({i \in 1..Len(rules) : rules[i].enabled})

\* The same statement for the collections in which no enabled rule has a NaN
\* priority.
C13_WithoutNaN ==
  (\A i \in 1..Len(rules) : rules[i].enabled => rules[i].priority.t = "num") => C13_RuleSet

-----------------------------------------------------------------------------
(* The validation panel: ValidationPanel (runValidation, its two effects,
   handleAutoFix) and the store's updateRecord. Time is counted in units of
   100 ms. The model covers one mounted life of the panel. *)

ValidationDelay == 5
DebounceDelay == 3
AutoFixDelay == 1

\* Bounds of the panel specification: the pending timers, the clock.
MaxTimers == 5
MaxPanelClock == 8

\* A pending timer: what it will run, when, and the store its closure holds.
Timer(kind, due, snap) == [kind |-> kind, due |-> due, snapshot |-> snap]

current == [clients |-> clients, workers |-> workers, tasks |-> tasks]

\* { ...updated[index], [field]: value }: the field is replaced, or added when
\* the record has none of that name.
withField(row, field, value) ==
  IF field \in DOMAIN row
    THEN [row EXCEPT ![field] = value]
    ELSE [f \in DOMAIN row \cup {field} |-> IF f = field THEN value ELSE row[f]]

\* An updateRecord that builds the new record from the field alone.
updateRecordDroppingFields(state, type, index, field, value) ==
  IF type \in DOMAIN state /\ index + 1 \in 1..Len(state[type])
    THEN [state EXCEPT ![type][index + 1] = [f \in {field} |-> value]]
    ELSE state

\* The store's updateRecord(type, index, field, value), index counted from 0.
updateRecord(state, type, index, field, value) ==
  IF type \in DOMAIN state /\ index + 1 \in 1..Len(state[type])
    THEN [state EXCEPT ![type][index + 1] = withField(@, field, value)]
    ELSE state

\* Whether updateRecord calls set(...) and so re-renders the panel.
updateRecordSets(state, type, index) == index + 1 \in 1..Len(state[type])

\* entityType.slice(0, 1).toUpperCase()
InitialOf(entityType) ==
  CASE entityType = "clients" -> "C"
    [] entityType = "workers" -> "W"
    [] entityType = "tasks" -> "T"

\* error.id.split("-")[0]
FixKindOf(error) ==
  CASE error.id[1] = "duplicate-id-" -> "duplicate"
    [] error.id[1] = "priority-range-" -> "priority"
    [] error.id[1] = "duration-range-" -> "duration"
    [] OTHER -> "other"

\* The value handleAutoFix writes.
FixValueOf(error, clock) ==
  CASE FixKindOf(error) = "duplicate" -> Str(<<InitialOf(error.entityType)>> \o NatChars(clock))
    [] FixKindOf(error) = "priority" -> Num(3)
    [] FixKindOf(error) = "duration" -> Num(1)
    [] OTHER -> Undef

\* The issues the panel lists, each with its Auto Fix button when autoFixable.
DisplayedIssues ==
  {report.errors[k] : k \in 1..Len(report.errors)}
    \cup {report.warnings[k] : k \in 1..Len(report.warnings)}

hasData(state) ==
  Len(state.clients) > 0 \/ Len(state.workers) > 0 \/ Len(state.tasks) > 0

\* What the two effects do when the store has changed (or on mount): the
\* cleanup clears the debounce timer, the immediate effect starts a pass, the
\* debounced effect sets its timer.
AfterEffects(pending, state) ==
  SelectSeq(pending, LAMBDA t : t.kind # "debounce")
    \o (IF hasData(state) THEN <<Timer("pass", ValidationDelay, state)>> ELSE <<>>)
    \o <<Timer("debounce", DebounceDelay, state)>>

clientAcme ==
  Client(sC1, Str(<<"A", "c", "m", "e">>), Num(3), Str(<<"T", "1", ",", "T", "2">>), sDev, Null)
clientBolt ==
  Client(sC1, Str(<<"B", "o", "l", "t">>), Num(7), sT9, sDev, Str(<<"{", "}">>))
taskBuild ==
  Task(sT1, Str(<<"B", "u", "i", "l", "d">>), sDev, Num(3), sJs, Arr(<<Num(1)>>), Num(1))
taskCircular ==
  Task(sT2, Str(<<"C", "i", "r", "c", "u", "l", "a", "r">>), sDev, Num(-1),
       Str(<<"p", "y", ",", "g", "o">>), Str(<<"x", "-", "y">>), Num(3))
taskSeven ==
  Task(sT1, Num(7), Null, Num(0), Null, Str(<<"[", "1", ",", "2", "]">>), Null)

\* The stores the panel is mounted over.
PanelStores ==
  { [clients |-> <<clientAcme, clientBolt>>, workers |-> <<>>, tasks |-> <<taskBuild>>],
    [clients |-> <<clientAcme>>, workers |-> <<workerAnn>>, tasks |-> <<taskBuild, taskCircular>>],
    [clients |-> <<clientBolt>>, workers |-> <<>>, tasks |-> <<taskSeven>>] }

InitPanel ==
  /\ \E state \in PanelStores :
       /\ clients = state.clients /\ workers = state.workers /\ tasks = state.tasks
       /\ timers = AfterEffects(<<>>, state)
  /\ isValidating = TRUE
  /\ outcome = "none"
  /\ report = NoReport
  /\ rules = NoRules
  /\ now = 0
  /\ validationErrors = <<>>
  /\ recommendations = <<>>
  /\ ruleSet = <<>>
  /\ query = <<>> /\ parsedQuery = <<>> /\ suggestions = <<>> /\ searchResults = <<>>

rulesVars == <<rules, validationErrors, recommendations>>

\* 100 ms pass and no timer is due.
Advance ==
  /\ timers # <<>>
  /\ \A i \in 1..Len(timers) : timers[i].due > 0
  /\ now < MaxPanelClock
  /\ now' = now + 1
  /\ timers' = [i \in 1..Len(timers) |-> [timers[i] EXCEPT !.due = @ - 1]]
  /\ UNCHANGED <<clients, workers, tasks, outcome, report, isValidating,
                 rulesVars, exportVars, searchVars>>

\* The timer that fires next: the oldest of the timers that are due.
IsNextDue(i) ==
  /\ i \in 1..Len(timers) /\ timers[i].due = 0
  /\ \A j \in 1..(i - 1) : timers[j].due > 0

Without(pending, i) == SubSeq(pending, 1, i - 1) \o SubSeq(pending, i + 1, Len(pending))

\* A pass that writes the store of its closure back; runValidation does not.
CompletePassRestoringSnapshot(i) ==
  /\ IsNextDue(i) /\ timers[i].kind = "pass"
  /\ LET passed == timers[i].snapshot
         run == validateAll(passed.clients, passed.workers, passed.tasks) IN
       /\ outcome' = IF run.threw THEN "threw" ELSE "returned"
       /\ report' = IF run.threw THEN report ELSE run.result
       /\ isValidating' = IF run.threw THEN isValidating ELSE FALSE
       /\ clients' = passed.clients /\ workers' = passed.workers /\ tasks' = passed.tasks
  /\ timers' = Without(timers, i)
  /\ UNCHANGED <<now, rulesVars, exportVars, searchVars>>

\* runValidation after its 500 ms: validateAll over the store of the closure,
\* setValidationResult, setIsValidating(false); a throw rejects the promise
\* before either setter runs.
CompletePass(i) ==
  /\ IsNextDue(i) /\ timers[i].kind = "pass"
  /\ LET passed == timers[i].snapshot
         run == validateAll(passed.clients, passed.workers, passed.tasks) IN
       /\ outcome' = IF run.threw THEN "threw" ELSE "returned"
       /\ report' = IF run.threw THEN report ELSE run.result
       /\ isValidating' = IF run.threw THEN isValidating ELSE FALSE
  /\ timers' = Without(timers, i)
  /\ UNCHANGED <<clients, workers, tasks, now, rulesVars, exportVars, searchVars>>

\* The debounce timer or the Auto Fix timer fires: runValidation starts.
FireTimer(i) ==
  /\ IsNextDue(i) /\ timers[i].kind \in {"debounce", "autofix"}
  /\ IF timers[i].kind = "autofix" \/ hasData(timers[i].snapshot)
       THEN /\ isValidating' = TRUE
            /\ timers' = Without(timers, i) \o <<Timer("pass", ValidationDelay, timers[i].snapshot)>>
       ELSE /\ isValidating' = isValidating
            /\ timers' = Without(timers, i)
  /\ UNCHANGED <<clients, workers, tasks, outcome, report, now,
                 rulesVars, exportVars, searchVars>>

\* The operator clicks Auto Fix on a listed issue.
handleAutoFix(error) ==
  /\ error \in DisplayedIssues /\ error.autoFixable
  /\ Len(timers) + 3 <= MaxTimers
  /\ LET fixes == FixKindOf(error) # "other"
         sets == fixes /\ updateRecordSets(current, error.entityType, error.rowIndex)
         after == IF fixes
                    THEN updateRecord(current, error.entityType, error.rowIndex, error.field,
                                      FixValueOf(error, now))
                    ELSE current
         rerun == Timer("autofix", AutoFixDelay, current) IN
       /\ clients' = after.clients /\ workers' = after.workers /\ tasks' = after.tasks
       /\ timers' = IF sets THEN AfterEffects(timers, after) \o <<rerun>> ELSE timers \o <<rerun>>
       /\ isValidating' = IF sets /\ hasData(after) THEN TRUE ELSE isValidating
  /\ UNCHANGED <<outcome, report, now, rulesVars, exportVars, searchVars>>

\* The operator clicks Re-validate (disabled while isValidating).
Revalidate ==
  /\ report # NoReport /\ ~isValidating
  /\ Len(timers) + 1 <= MaxTimers
  /\ isValidating' = TRUE
  /\ timers' = timers \o <<Timer("pass", ValidationDelay, current)>>
  /\ UNCHANGED <<clients, workers, tasks, outcome, report, now,
                 rulesVars, exportVars, searchVars>>

NextPanel ==
  \/ Advance
  \/ \E i \in 1..Len(timers) : CompletePass(i)
  \/ \E i \in 1..Len(timers) : FireTimer(i)
  \/ \E error \in DisplayedIssues : handleAutoFix(error)
  \/ Revalidate

SpecPanel == InitPanel /\ [][NextPanel]_vars

\* 100 ms pass and no timer is due, with no end of the clock: time stops only
\* when no timer is pending.
Elapse ==
  /\ timers # <<>>
  /\ \A i \in 1..Len(timers) : timers[i].due > 0
  /\ now' = now + 1
  /\ timers' = [i \in 1..Len(timers) |-> [timers[i] EXCEPT !.due = @ - 1]]
  /\ UNCHANGED <<clients, workers, tasks, outcome, report, isValidating,
                 rulesVars, exportVars, searchVars>>

\* The operator clicks a button of the panel; the last click comes before
\* MaxPanelClock.
OperatorActs ==
  /\ now < MaxPanelClock
  /\ \/ \E error \in DisplayedIssues : handleAutoFix(error)
     \/ Revalidate

NextPanelLive ==
  \/ Elapse
  \/ \E i \in 1..Len(timers) : CompletePass(i)
  \/ \E i \in 1..Len(timers) : FireTimer(i)
  \/ now < MaxPanelClock /\ \E error \in DisplayedIssues : handleAutoFix(error)
  \/ now < MaxPanelClock /\ Revalidate

\* The store alone: updateRecord called from a grid cell or a fix, with any
\* index from -1 (no such row) to MaxIndex.
MaxIndex == 2
StoreTypes == {"clients", "workers", "tasks"}
EditFields == {"PriorityLevel", "Duration"}
EditValues == {Num(3), Str(<<>>)}

InitStore ==
  /\ \E state \in PanelStores :
       clients = state.clients /\ workers = state.workers /\ tasks = state.tasks
  /\ timers = <<>> /\ isValidating = FALSE
  /\ outcome = "none"
  /\ report = NoReport
  /\ rules = NoRules
  /\ now = 0
  /\ validationErrors = <<>>
  /\ recommendations = <<>>
  /\ ruleSet = <<>>
  /\ query = <<>> /\ parsedQuery = <<>> /\ suggestions = <<>> /\ searchResults = <<>>

CallUpdateRecord(type, index, field, value) ==
  /\ LET after == updateRecord(current, type, index, field, value) IN
       clients' = after.clients /\ workers' = after.workers /\ tasks' = after.tasks
  /\ UNCHANGED <<outcome, report, now, rulesVars, exportVars, searchVars, panelVars>>

NextStore ==
  \E type \in StoreTypes, index \in -1..MaxIndex, field \in EditFields, value \in EditValues :
    CallUpdateRecord(type, index, field, value)

SpecStore == InitStore /\ [][NextStore]_vars

\* A pass is the timer that fires next: CompletePass is enabled.
PassDue == \E i \in 1..Len(timers) : IsNextDue(i) /\ timers[i].kind = "pass"

\* The panel under the scheduling of the event loop: time passes while a timer
\* is pending, and a timer that is due fires. The last conjunct is weak
\* fairness of CompletePass written out, its enabling condition being PassDue
\* (a pass that completes always leaves the pending timers).
SpecPanelLive ==
  /\ InitPanel /\ [][NextPanelLive]_vars
  /\ WF_vars(Elapse)
  /\ WF_vars(\E i \in 1..Len(timers) : FireTimer(i))
  /\ ([]<>(~PassDue) \/ []<><<\E i \in 1..Len(timers) : CompletePass(i)>>_vars)

-----------------------------------------------------------------------------
(* Properties of the validation panel *)

\* Step i stores a validation result in the panel (setValidationResult).
Displays(i) ==
  /\ CompletePass(i)
  /\ ~validateAll(timers[i].snapshot.clients, timers[i].snapshot.workers,
                  timers[i].snapshot.tasks).threw

\* C14: the panel displays a result only if it was computed from the snapshot
\* that is current at the moment it is displayed; the result of a pass over
\* an older snapshot (the re-validation scheduled after an Auto Fix included)
\* is discarded.
C14_OnlyCurrentResults ==
  [][\A i \in 1..Len(timers) : Displays(i) => timers[i].snapshot = current]_vars

PassesInFlight == {i \in 1..Len(timers) : timers[i].kind = "pass"}

\* C15: at most one validation pass is in flight for one snapshot, whichever
\* of the immediate effect, the debounced effect, the Re-validate button and
\* the Auto Fix timer started it.
C15_OnePassPerSnapshot ==
  \A i, j \in PassesInFlight : timers[i].snapshot = timers[j].snapshot => i = j

\* C16: a validation pass never changes a record: the store changes only in
\* a step taken by the operator (here the Auto Fix click), and no step that
\* starts or completes a pass changes it.
C16_ValidationReadsOnly ==
  [][/\ current' # current => \E error \in DisplayedIssues : handleAutoFix(error)
     /\ \A i \in 1..Len(timers) : CompletePass(i) \/ FireTimer(i) => current' = current]_vars

\* A pass has completed, it lists a priority it could fix, and the record
\* still holds the value the pass read.
C16_Witness ==
  /\ outcome = "returned"
  /\ \E error \in DisplayedIssues :
       /\ error.autoFixable /\ FixKindOf(error) = "priority"
       /\ current[error.entityType][error.rowIndex + 1][error.field] = Num(7)

\* C30: updateRecord(type, index, field, value) changes nothing when the
\* collection has no record at that index; otherwise the record at that index
\* holds the value in that field and its other fields as before, the other
\* records of the collection are the same in number and order, and the two
\* other collections are unchanged.
C30_UpdateRecordFrame ==
  \A type \in StoreTypes, index \in -1..MaxIndex, field \in EditFields, value \in EditValues :
    LET after == updateRecord(current, type, index, field, value)
        rows == current[type] IN
    IF index + 1 \notin 1..Len(rows) THEN after = current
    ELSE /\ Len(after[type]) = Len(rows)
         /\ \A k \in 1..Len(rows) : k # index + 1 => after[type][k] = rows[k]
         /\ DOMAIN after[type][index + 1] = DOMAIN rows[index + 1] \cup {field}
         /\ after[type][index + 1][field] = value
         /\ \A f \in DOMAIN rows[index + 1] \ {field} :
              after[type][index + 1][f] = rows[index + 1][f]
         /\ \A other \in StoreTypes \ {type} : after[other] = current[other]

\* updateRecord has emptied the priority of the first of two clients and has
\* given the first task a field it did not have.
C30_Witness ==
  /\ Len(clients) = 2 /\ clients[1].PriorityLevel = Str(<<>>)
  /\ clients[2] = clientBolt
  /\ Len(tasks) > 0 /\ "PriorityLevel" \in DOMAIN tasks[1]

\* No pass is in flight or about to start, and the panel shows the result of
\* validateAll over the store as it is.
Settled ==
  /\ timers = <<>> /\ ~isValidating
  /\ LET run == validateAll(clients, workers, tasks) IN
       ~run.threw /\ report = run.result

\* C29: if the operator stops changing the data and clicking, eventually and
\* from then on no validation pass is in flight and the displayed result is
\* the one computed from the final snapshot, whatever edits, Auto Fix clicks
\* and Re-validate clicks came before, the timers firing in deadline order.
C29_EventuallySettled ==
  <>[][~OperatorActs]_vars => <>[]Settled

\* The part of C29 that holds: the same for the stores on which validateAll
\* returns.
C29_WhenValidationReturns ==
  <>[][~OperatorActs]_vars
    => <>[](validateAll(clients, workers, tasks).threw \/ Settled)

-----------------------------------------------------------------------------
(* Natural-language search: QueryParser (parse, parseComplexQueries,
   parseKeywordSearch, generateSuggestions) and the search component.
   A text is the sequence of its characters. *)

WhiteSpace == {" ", "\t", "\n"}
DigitChars == {Digits[i] : i \in 1..10}
LowerChars == {Lower[i] : i \in 1..26}
UpperChars == {Upper[i] : i \in 1..26}

\* \w
WordChars == LowerChars \cup UpperChars \cup DigitChars \cup {"_"}

\* The nodes of a regular expression.
Node(op, lit, set, subs, k) == [op |-> op, lit |-> lit, set |-> set, subs |-> subs, k |-> k]
Lit(cs) == Node("lit", cs, {}, <<>>, 0)
Class(set) == Node("class", <<>>, set, <<>>, 0)
WordB == Node("b", <<>>, {}, <<>>, 0)
Cat(subs) == Node("cat", <<>>, {}, subs, 0)
Alt(subs) == Node("alt", <<>>, {}, subs, 0)
Opt(sub) == Node("opt", <<>>, {}, <<sub>>, 0)
Plus(sub) == Node("plus", <<>>, {}, <<sub>>, 0)
Group(k, sub) == Node("group", <<>>, {}, <<sub>>, k)

NoCaptures == [k \in 1..2 |-> <<>>]

IsWordAt(text, pos) == pos \in 1..Len(text) /\ text[pos] \in WordChars

\* The backtracking matcher under the i flag: the ways node matches text from
\* pos, in the order the engine tries them (greedy first), each with the
\* position after the match and the captures.
RECURSIVE Match(_, _, _, _)
RECURSIVE MatchSeq(_, _, _)
Match(node, text, pos, caps) ==
  CASE node.op = "lit" ->
         IF /\ pos + Len(node.lit) - 1 <= Len(text)
            /\ \A j \in 1..Len(node.lit) : LowerChar(text[pos + j - 1]) = node.lit[j]
           THEN <<[pos |-> pos + Len(node.lit), caps |-> caps]>>
           ELSE <<>>
    [] node.op = "class" ->
         IF pos <= Len(text) /\ text[pos] \in node.set
           THEN <<[pos |-> pos + 1, caps |-> caps]>>
           ELSE <<>>
    [] node.op = "b" ->
         IF IsWordAt(text, pos - 1) # IsWordAt(text, pos)
           THEN <<[pos |-> pos, caps |-> caps]>>
           ELSE <<>>
    [] node.op = "cat" -> MatchSeq(node.subs, text, <<[pos |-> pos, caps |-> caps]>>)
    [] node.op = "alt" ->
         ConcatAll([i \in 1..Len(node.subs) |-> Match(node.subs[i], text, pos, caps)])
    [] node.op = "opt" ->
         Match(node.subs[1], text, pos, caps) \o <<[pos |-> pos, caps |-> caps]>>
    [] node.op = "plus" ->
         LET once == Match(node.subs[1], text, pos, caps) IN
         ConcatAll([i \in 1..Len(once) |->
           (IF once[i].pos > pos THEN Match(node, text, once[i].pos, once[i].caps) ELSE <<>>)
             \o <<once[i]>>])
    [] node.op = "group" ->
         LET inner == Match(node.subs[1], text, pos, caps) IN
         [i \in 1..Len(inner) |->
           [pos |-> inner[i].pos,
            caps |-> [inner[i].caps EXCEPT ![node.k] = SubSeq(text, pos, inner[i].pos - 1)]]]

MatchSeq(subs, text, starts) ==
  IF subs = <<>> THEN starts
  ELSE MatchSeq(Tail(subs), text,
         ConcatAll([i \in 1..Len(starts) |->
           Match(Head(subs), text, starts[i].pos, starts[i].caps)]))

\* RegExp.prototype.exec without the g flag: the first way of the leftmost
\* start that matches, <<>> for null.
exec(pattern, text) ==
  LET starts == {s \in 1..(Len(text) + 1) : Match(pattern, text, s, NoCaptures) # <<>>} IN
  IF starts = {} THEN <<>>
  ELSE LET first == CHOOSE s \in starts : \A o \in starts : s <= o IN
       <<Head(Match(pattern, text, first, NoCaptures)).caps>>

test(pattern, text) == exec(pattern, text) # <<>>

\* /\b(client|clients)\b/i
clientPattern ==
  Cat(<<WordB, Group(1, Alt(<<Lit(<<"c", "l", "i", "e", "n", "t">>), Lit(<<"c", "l", "i",
  "e", "n", "t", "s">>)>>)), WordB>>)

\* /\b(worker|workers|employee|employees)\b/i
workerPattern ==
  Cat(<<WordB, Group(1, Alt(<<Lit(<<"w", "o", "r", "k", "e", "r">>), Lit(<<"w", "o", "r",
  "k", "e", "r", "s">>), Lit(<<"e", "m", "p", "l", "o", "y", "e", "e">>), Lit(<<"e", "m",
  "p", "l", "o", "y", "e", "e", "s">>)>>)), WordB>>)

\* /\b(task|tasks|job|jobs)\b/i
taskPattern ==
  Cat(<<WordB, Group(1, Alt(<<Lit(<<"t", "a", "s", "k">>), Lit(<<"t", "a", "s", "k",
  "s">>), Lit(<<"j", "o", "b">>), Lit(<<"j", "o", "b", "s">>)>>)), WordB>>)

\* /\b(workers?|employees?)\s+(?:with|having|who\s+(?:have|know))\s+([a-zA-Z0-9\s,]+)\s+(?:skill|skills|expertise)/i
skillPattern ==
  Cat(<<WordB, Group(1, Alt(<<Cat(<<Lit(<<"w", "o", "r", "k", "e", "r">>),
  Opt(Lit(<<"s">>))>>), Cat(<<Lit(<<"e", "m", "p", "l", "o", "y", "e", "e">>),
  Opt(Lit(<<"s">>))>>)>>)), Plus(Class(WhiteSpace)), Alt(<<Lit(<<"w", "i", "t", "h">>),
  Lit(<<"h", "a", "v", "i", "n", "g">>), Cat(<<Lit(<<"w", "h", "o">>),
  Plus(Class(WhiteSpace)), Alt(<<Lit(<<"h", "a", "v", "e">>), Lit(<<"k", "n", "o",
  "w">>)>>)>>)>>), Plus(Class(WhiteSpace)), Group(2, Plus(Class(LowerChars \cup UpperChars
  \cup DigitChars \cup WhiteSpace \cup {","}))), Plus(Class(WhiteSpace)), Alt(<<Lit(<<"s",
  "k", "i", "l", "l">>), Lit(<<"s", "k", "i", "l", "l", "s">>), Lit(<<"e", "x", "p", "e",
  "r", "t", "i", "s", "e">>)>>)>>)

\* /\b(tasks?)\s+(?:with|having)\s+(?:duration|time)\s+(?:greater than|more than|above|over|>)\s+(\d+)/i
durationPattern ==
  Cat(<<WordB, Group(1, Cat(<<Lit(<<"t", "a", "s", "k">>), Opt(Lit(<<"s">>))>>)),
  Plus(Class(WhiteSpace)), Alt(<<Lit(<<"w", "i", "t", "h">>), Lit(<<"h", "a", "v", "i",
  "n", "g">>)>>), Plus(Class(WhiteSpace)), Alt(<<Lit(<<"d", "u", "r", "a", "t", "i", "o",
  "n">>), Lit(<<"t", "i", "m", "e">>)>>), Plus(Class(WhiteSpace)), Alt(<<Lit(<<"g", "r",
  "e", "a", "t", "e", "r", " ", "t", "h", "a", "n">>), Lit(<<"m", "o", "r", "e", " ", "t",
  "h", "a", "n">>), Lit(<<"a", "b", "o", "v", "e">>), Lit(<<"o", "v", "e", "r">>),
  Lit(<<">">>)>>), Plus(Class(WhiteSpace)), Group(2, Plus(Class(DigitChars)))>>)

\* /\b(clients?)\s+(?:with|having)\s+(?:priority|priority\s+level)\s+(?:above|over|greater\s+than|>)\s+(\d+)/i
priorityPattern ==
  Cat(<<WordB, Group(1, Cat(<<Lit(<<"c", "l", "i", "e", "n", "t">>),
  Opt(Lit(<<"s">>))>>)), Plus(Class(WhiteSpace)), Alt(<<Lit(<<"w", "i", "t", "h">>),
  Lit(<<"h", "a", "v", "i", "n", "g">>)>>), Plus(Class(WhiteSpace)), Alt(<<Lit(<<"p", "r",
  "i", "o", "r", "i", "t", "y">>), Cat(<<Lit(<<"p", "r", "i", "o", "r", "i", "t", "y">>),
  Plus(Class(WhiteSpace)), Lit(<<"l", "e", "v", "e", "l">>)>>)>>),
  Plus(Class(WhiteSpace)), Alt(<<Lit(<<"a", "b", "o", "v", "e">>), Lit(<<"o", "v", "e",
  "r">>), Cat(<<Lit(<<"g", "r", "e", "a", "t", "e", "r">>), Plus(Class(WhiteSpace)),
  Lit(<<"t", "h", "a", "n">>)>>), Lit(<<">">>)>>), Plus(Class(WhiteSpace)), Group(2,
  Plus(Class(DigitChars)))>>)

\* /\b(workers?)\s+(?:available|working)\s+(?:in|during)\s+phase\s+(\d+)/i
phasePattern ==
  Cat(<<WordB, Group(1, Cat(<<Lit(<<"w", "o", "r", "k", "e", "r">>),
  Opt(Lit(<<"s">>))>>)), Plus(Class(WhiteSpace)), Alt(<<Lit(<<"a", "v", "a", "i", "l",
  "a", "b", "l", "e">>), Lit(<<"w", "o", "r", "k", "i", "n", "g">>)>>),
  Plus(Class(WhiteSpace)), Alt(<<Lit(<<"i", "n">>), Lit(<<"d", "u", "r", "i", "n",
  "g">>)>>), Plus(Class(WhiteSpace)), Lit(<<"p", "h", "a", "s", "e">>),
  Plus(Class(WhiteSpace)), Group(2, Plus(Class(DigitChars)))>>)

\* /\b(tasks?)\s+(?:in|from|of)\s+(?:category\s+)?([a-zA-Z]+)/i
categoryPattern ==
  Cat(<<WordB, Group(1, Cat(<<Lit(<<"t", "a", "s", "k">>), Opt(Lit(<<"s">>))>>)),
  Plus(Class(WhiteSpace)), Alt(<<Lit(<<"i", "n">>), Lit(<<"f", "r", "o", "m">>),
  Lit(<<"o", "f">>)>>), Plus(Class(WhiteSpace)), Opt(Cat(<<Lit(<<"c", "a", "t", "e", "g",
  "o", "r", "y">>), Plus(Class(WhiteSpace))>>)), Group(2, Plus(Class(LowerChars \cup
  UpperChars)))>>)

\* /\b(?:overloaded|overworked|busy)\s+workers?\b/i
overloadedPattern ==
  Cat(<<WordB, Alt(<<Lit(<<"o", "v", "e", "r", "l", "o", "a", "d", "e", "d">>), Lit(<<"o",
  "v", "e", "r", "w", "o", "r", "k", "e", "d">>), Lit(<<"b", "u", "s", "y">>)>>),
  Plus(Class(WhiteSpace)), Lit(<<"w", "o", "r", "k", "e", "r">>), Opt(Lit(<<"s">>)),
  WordB>>)

\* /\b(?:high|top)\s+priority\s+clients?\b/i
highPriorityPattern ==
  Cat(<<WordB, Alt(<<Lit(<<"h", "i", "g", "h">>), Lit(<<"t", "o", "p">>)>>),
  Plus(Class(WhiteSpace)), Lit(<<"p", "r", "i", "o", "r", "i", "t", "y">>),
  Plus(Class(WhiteSpace)), Lit(<<"c", "l", "i", "e", "n", "t">>), Opt(Lit(<<"s">>)),
  WordB>>)

\* /\b(backend|frontend|fullstack|mobile)\s+(?:workers?|developers?|employees?)/i
groupPattern ==
  Cat(<<WordB, Group(1, Alt(<<Lit(<<"b", "a", "c", "k", "e", "n", "d">>), Lit(<<"f", "r",
  "o", "n", "t", "e", "n", "d">>), Lit(<<"f", "u", "l", "l", "s", "t", "a", "c", "k">>),
  Lit(<<"m", "o", "b", "i", "l", "e">>)>>)), Plus(Class(WhiteSpace)),
  Alt(<<Cat(<<Lit(<<"w", "o", "r", "k", "e", "r">>), Opt(Lit(<<"s">>))>>),
  Cat(<<Lit(<<"d", "e", "v", "e", "l", "o", "p", "e", "r">>), Opt(Lit(<<"s">>))>>),
  Cat(<<Lit(<<"e", "m", "p", "l", "o", "y", "e", "e">>), Opt(Lit(<<"s">>))>>)>>)>>)


\* String.prototype.split(/[seps]+/): the pieces between the runs of
\* separator characters, the empty pieces at either end included.
RECURSIVE SplitRunsFrom(_, _, _, _)
SplitRunsFrom(cs, seps, cur, inRun) ==
  IF cs = <<>> THEN <<cur>>
  ELSE IF Head(cs) \in seps
    THEN IF inRun THEN SplitRunsFrom(Tail(cs), seps, cur, TRUE)
         ELSE <<cur>> \o SplitRunsFrom(Tail(cs), seps, <<>>, TRUE)
  ELSE SplitRunsFrom(Tail(cs), seps, Append(cur, Head(cs)), FALSE)

SplitRuns(cs, seps) == SplitRunsFrom(cs, seps, <<>>, FALSE)

\* Array.prototype.join(",") of strings.
RECURSIVE JoinWithComma(_)
JoinWithComma(words) ==
  IF words = <<>> THEN <<>>
  ELSE IF Len(words) = 1 THEN Head(words)
  ELSE Head(words) \o <<",">> \o JoinWithComma(Tail(words))

\* Number.parseInt of a string of digits.
parseIntOf(cs) == Num(DigitsVal(cs, 0))

Filter(field, operator, value, entityType) ==
  [field |-> field, operator |-> operator, value |-> value, entityType |-> entityType]

\* The filter each template pushes when it matches, <<>> when it does not.
skillFilter(text) ==
  LET m == exec(skillPattern, text) IN
  IF m = <<>> THEN <<>>
  ELSE LET skills == SelectSeq(SplitRuns(m[1][2], WhiteSpace \cup {","}), LAMBDA w : w # <<>>) IN
       <<Filter("Skills", "contains", Str(JoinWithComma(skills)), "workers")>>

durationFilter(text) ==
  LET m == exec(durationPattern, text) IN
  IF m = <<>> THEN <<>>
  ELSE <<Filter("Duration", "greater", parseIntOf(m[1][2]), "tasks")>>

priorityFilter(text) ==
  LET m == exec(priorityPattern, text) IN
  IF m = <<>> THEN <<>>
  ELSE <<Filter("PriorityLevel", "greater", parseIntOf(m[1][2]), "clients")>>

phaseFilter(text) ==
  LET m == exec(phasePattern, text) IN
  IF m = <<>> THEN <<>>
  ELSE <<Filter("AvailableSlots", "contains", parseIntOf(m[1][2]), "workers")>>

categoryFilter(text) ==
  LET m == exec(categoryPattern, text) IN
  IF m = <<>> THEN <<>>
  ELSE <<Filter("Category", "contains", Str(m[1][2]), "tasks")>>

overloadedFilter(text) ==
  IF test(overloadedPattern, text)
    THEN <<Filter("MaxLoadPerPhase", "greater", Num(3), "workers")>>
    ELSE <<>>

highPriorityFilter(text) ==
  IF test(highPriorityPattern, text)
    THEN <<Filter("PriorityLevel", "greaterEqual", Num(4), "clients")>>
    ELSE <<>>

groupFilter(text) ==
  LET m == exec(groupPattern, text) IN
  IF m = <<>> THEN <<>>
  ELSE <<Filter("WorkerGroup", "contains", Str(m[1][1]), "workers")>>

\* A parser that stops at the first template that matches.
parseComplexQueriesFirstMatchOnly(text, entityTypes) ==
  LET pushed == <<skillFilter(text), durationFilter(text), priorityFilter(text),
                  phaseFilter(text), categoryFilter(text), overloadedFilter(text),
                  highPriorityFilter(text), groupFilter(text)>>
      filters == ConcatAll(pushed) IN
  [filters |-> IF filters = <<>> THEN <<>> ELSE <<Head(filters)>>,
   entityTypes |-> IF filters = <<>> THEN entityTypes ELSE <<Head(filters).entityType>>]

\* parseComplexQueries: every template is tried, in this order; each match
\* pushes its filter and replaces result.entityTypes.
parseComplexQueries(text, entityTypes) ==
  LET pushed == <<skillFilter(text), durationFilter(text), priorityFilter(text),
                  phaseFilter(text), categoryFilter(text), overloadedFilter(text),
                  highPriorityFilter(text), groupFilter(text)>>
      filters == ConcatAll(pushed) IN
  [filters |-> filters,
   entityTypes |-> IF filters = <<>> THEN entityTypes
                   ELSE <<filters[Len(filters)].entityType>>]

StopWords ==
  {<<"t", "h", "e">>,
   <<"a", "n", "d">>,
   <<"o", "r">>,
   <<"w", "i", "t", "h">>,
   <<"h", "a", "v", "e">>,
   <<"h", "a", "s">>,
   <<"a", "r", "e">>,
   <<"i", "s">>,
   <<"w", "a", "s">>,
   <<"w", "e", "r", "e">>}


\* parseKeywordSearch: toLowerCase, replace(/[^\w\s]/g, " "), split(/\s+/),
\* the two filters.
parseKeywordSearch(text) ==
  LET lowered == ToLowerCase(text)
      cleaned == [i \in 1..Len(lowered) |->
                   IF lowered[i] \in WordChars \cup WhiteSpace THEN lowered[i] ELSE " "]
      words == SplitRuns(cleaned, WhiteSpace) IN
  SelectSeq(SelectSeq(words, LAMBDA word : Len(word) > 2),
            LAMBDA word : word \notin StopWords)

\* The entity patterns that test true, in the order of this.patterns.
detectedEntities(text) ==
  (IF test(clientPattern, text) THEN <<"clients">> ELSE <<>>)
    \o (IF test(workerPattern, text) THEN <<"workers">> ELSE <<>>)
    \o (IF test(taskPattern, text) THEN <<"tasks">> ELSE <<>>)

Min(a, b) == IF a <= b THEN a ELSE b

\* A parser that scores the entity types left after the templates narrowed them.
parseScoringScope(text) ==
  LET detected == detectedEntities(text)
      scope == IF detected = <<>> THEN <<"clients", "workers", "tasks">> ELSE detected
      complex == parseComplexQueries(text, scope) IN
  [filters |-> complex.filters,
   entityTypes |-> complex.entityTypes,
   searchTerms |-> parseKeywordSearch(text),
   confidence |-> Min(20 * Len(complex.entityTypes) + Len(complex.filters) * 15, 100),
   originalQuery |-> text]

\* QueryParser.parse
parse(text) ==
  LET detected == detectedEntities(text)
      scope == IF detected = <<>> THEN <<"clients", "workers", "tasks">> ELSE detected
      complex == parseComplexQueries(text, scope) IN
  [filters |-> complex.filters,
   entityTypes |-> complex.entityTypes,
   searchTerms |-> parseKeywordSearch(text),
   confidence |-> Min(20 * Len(detected) + Len(complex.filters) * 15, 100),
   originalQuery |-> text]

\* The curated suggestions of generateSuggestions, in the order of the source.
curatedSuggestions ==
  <<<<"S", "h", "o", "w", " ", "a", "l", "l", " ", "c", "l", "i", "e", "n", "t", "s">>,
  <<"L", "i", "s", "t", " ", "a", "l", "l", " ", "w", "o", "r", "k", "e", "r", "s">>, <<"D",
  "i", "s", "p", "l", "a", "y", " ", "a", "l", "l", " ", "t", "a", "s", "k", "s">>, <<"H",
  "i", "g", "h", " ", "p", "r", "i", "o", "r", "i", "t", "y", " ", "c", "l", "i", "e", "n",
  "t", "s">>, <<"C", "l", "i", "e", "n", "t", "s", " ", "w", "i", "t", "h", " ", "p", "r",
  "i", "o", "r", "i", "t", "y", " ", "a", "b", "o", "v", "e", " ", "3">>, <<"L", "o", "w",
  " ", "p", "r", "i", "o", "r", "i", "t", "y", " ", "t", "a", "s", "k", "s">>, <<"W", "o",
  "r", "k", "e", "r", "s", " ", "w", "i", "t", "h", " ", "J", "a", "v", "a", "S", "c", "r",
  "i", "p", "t", " ", "s", "k", "i", "l", "l", "s">>, <<"W", "o", "r", "k", "e", "r", "s",
  " ", "w", "h", "o", " ", "k", "n", "o", "w", " ", "R", "e", "a", "c", "t">>, <<"B", "a",
  "c", "k", "e", "n", "d", " ", "d", "e", "v", "e", "l", "o", "p", "e", "r", "s">>, <<"F",
  "r", "o", "n", "t", "e", "n", "d", " ", "w", "o", "r", "k", "e", "r", "s">>, <<"T", "a",
  "s", "k", "s", " ", "w", "i", "t", "h", " ", "d", "u", "r", "a", "t", "i", "o", "n", " ",
  "g", "r", "e", "a", "t", "e", "r", " ", "t", "h", "a", "n", " ", "2">>, <<"L", "o", "n",
  "g", " ", "r", "u", "n", "n", "i", "n", "g", " ", "t", "a", "s", "k", "s">>, <<"Q", "u",
  "i", "c", "k", " ", "t", "a", "s", "k", "s", " ", "u", "n", "d", "e", "r", " ", "1", " ",
  "h", "o", "u", "r">>, <<"W", "o", "r", "k", "e", "r", "s", " ", "a", "v", "a", "i", "l",
  "a", "b", "l", "e", " ", "i", "n", " ", "p", "h", "a", "s", "e", " ", "2">>, <<"T", "a",
  "s", "k", "s", " ", "s", "c", "h", "e", "d", "u", "l", "e", "d", " ", "f", "o", "r", " ",
  "p", "h", "a", "s", "e", " ", "1">>, <<"W", "o", "r", "k", "e", "r", "s", " ", "w", "o",
  "r", "k", "i", "n", "g", " ", "i", "n", " ", "m", "u", "l", "t", "i", "p", "l", "e", " ",
  "p", "h", "a", "s", "e", "s">>, <<"O", "v", "e", "r", "l", "o", "a", "d", "e", "d", " ",
  "w", "o", "r", "k", "e", "r", "s">>, <<"W", "o", "r", "k", "e", "r", "s", " ", "w", "i",
  "t", "h", " ", "h", "i", "g", "h", " ", "c", "a", "p", "a", "c", "i", "t", "y">>, <<"A",
  "v", "a", "i", "l", "a", "b", "l", "e", " ", "w", "o", "r", "k", "e", "r", "s">>, <<"M",
  "o", "b", "i", "l", "e", " ", "d", "e", "v", "e", "l", "o", "p", "m", "e", "n", "t", " ",
  "t", "a", "s", "k", "s">>, <<"W", "e", "b", " ", "d", "e", "v", "e", "l", "o", "p", "m",
  "e", "n", "t", " ", "p", "r", "o", "j", "e", "c", "t", "s">>, <<"D", "a", "t", "a", "b",
  "a", "s", "e", " ", "t", "a", "s", "k", "s">>, <<"W", "o", "r", "k", "e", "r", "s", " ",
  "w", "i", "t", "h", " ", "R", "e", "a", "c", "t", " ", "s", "k", "i", "l", "l", "s", " ",
  "a", "v", "a", "i", "l", "a", "b", "l", "e", " ", "i", "n", " ", "p", "h", "a", "s", "e",
  " ", "2">>, <<"H", "i", "g", "h", " ", "p", "r", "i", "o", "r", "i", "t", "y", " ", "c",
  "l", "i", "e", "n", "t", "s", " ", "r", "e", "q", "u", "e", "s", "t", "i", "n", "g", " ",
  "m", "o", "b", "i", "l", "e", " ", "t", "a", "s", "k", "s">>, <<"B", "a", "c", "k", "e",
  "n", "d", " ", "w", "o", "r", "k", "e", "r", "s", " ", "w", "i", "t", "h", " ", "P", "y",
  "t", "h", "o", "n", " ", "e", "x", "p", "e", "r", "t", "i", "s", "e">>, <<"T", "a", "s",
  "k", "s", " ", "r", "e", "q", "u", "i", "r", "i", "n", "g", " ", "J", "a", "v", "a", "S",
  "c", "r", "i", "p", "t", " ", "a", "n", "d", " ", "l", "a", "s", "t", "i", "n", "g", " ",
  "m", "o", "r", "e", " ", "t", "h", "a", "n", " ", "3", " ", "h", "o", "u", "r", "s">>>>

\* The texts the operator types, next to the suggestions that can be clicked.
TypedQueries ==
  {<<"h", "i", "g", "h", " ", "p", "r", "i", "o", "r", "i", "t", "y", " ", "c", "l", "i",
  "e", "n", "t", "s", ",", " ", "o", "v", "e", "r", "l", "o", "a", "d", "e", "d", " ", "w",
  "o", "r", "k", "e", "r", "s", ",", " ", "t", "a", "s", "k", "s", " ", "o", "f", " ", "m",
  "o", "b", "i", "l", "e">>, <<"t", "a", "s", "k", "_", "n", "a", "m", "e">>, <<"B", "a",
  "c", "k", "e", "n", "d", " ", "w", "o", "r", "k", "e", "r", "s", " ", "w", "i", "t", "h",
  " ", "P", "y", "t", "h", "o", "n", " ", "e", "x", "p", "e", "r", "t", "i", "s", "e">>,
  <<"T", "H", "E", " ", "J", "o", "b", "s", " ", "a", "r", "e", " ", "i", "n", " ", "P",
  "h", "a", "s", "e", " ", "2", "!">>, <<"t", "a", "s", "k", "s", " ", "i", "n", " ", "c",
  "a", "t", "e", "g", "o", "r", "y", " ", "5">>, <<"e", "m", "p", "l", "o", "y", "e", "e",
  "s", " ", "h", "a", "v", "i", "n", "g", " ", "j", "s", ",", " ", "g", "o", " ", " ", "s",
  "k", "i", "l", "l", "s">>, <<"j", "o", "b", " ", "f", "o", "r", " ", "a", " ", "c", "l",
  "i", "e", "n", "t", " ", "o", "r", " ", "a", "n", " ", "e", "m", "p", "l", "o", "y", "e",
  "e">>}


SuggestionLimit == 20

\* The elements of a list in the order a Set keeps them: first occurrences.
RECURSIVE SetOrder(_)
SetOrder(es) ==
  IF es = <<>> THEN <<>>
  ELSE LET front == SetOrder(SubSeq(es, 1, Len(es) - 1)) IN
       IF SeqHas(front, es[Len(es)]) THEN front ELSE Append(front, es[Len(es)])

\* What one worker adds to allSkills; a truthy Skills that is neither a string
\* nor an array of strings throws (forEach or trim is not a function).
skillsAdded(worker) ==
  IF ~Truthy(worker.Skills) THEN [threw |-> FALSE, skills |-> <<>>]
  ELSE IF IsString(worker.Skills)
    THEN LET parts == Split(worker.Skills.s, ",") IN
         [threw |-> FALSE, skills |-> [i \in 1..Len(parts) |-> Str(Trim(parts[i]))]]
  ELSE IF IsArray(worker.Skills) /\ \A i \in 1..Len(worker.Skills.a) : IsString(worker.Skills.a[i])
    THEN [threw |-> FALSE,
          skills |-> [i \in 1..Len(worker.Skills.a) |-> Str(Trim(worker.Skills.a[i].s))]]
  ELSE [threw |-> TRUE, skills |-> <<>>]

skillSuggestions(skill) ==
  IF Len(skill.s) > 0
    THEN << <<"W", "o", "r", "k", "e", "r", "s", " ", "w", "i", "t", "h", " ">> \o skill.s
              \o <<" ", "s", "k", "i", "l", "l", "s">>,
            <<"T", "a", "s", "k", "s", " ", "r", "e", "q", "u", "i", "r", "i", "n", "g", " ">>
              \o skill.s >>
    ELSE <<>>

categorySuggestion(category) == ToStr(category) \o <<" ", "t", "a", "s", "k", "s">>

\* The suggestions synthesized from the store, before the list is cut.
dynamicSuggestions(ws, ts) ==
  LET allSkills == SetOrder(ConcatAll([i \in 1..Len(ws) |-> skillsAdded(ws[i]).skills]))
      withCategory == SelectSeq(ts, LAMBDA task : Truthy(task.Category))
      allCategories == SetOrder([i \in 1..Len(withCategory) |-> withCategory[i].Category]) IN
  ConcatAll([i \in 1..Len(allSkills) |-> skillSuggestions(allSkills[i])])
    \o [i \in 1..Len(allCategories) |-> categorySuggestion(allCategories[i])]

\* generateSuggestions without the cut: every suggestion is returned.
generateSuggestionsUncut(cs, ws, ts) ==
  IF \E i \in 1..Len(ws) : skillsAdded(ws[i]).threw
    THEN [threw |-> TRUE, list |-> <<>>]
    ELSE [threw |-> FALSE, list |-> curatedSuggestions \o dynamicSuggestions(ws, ts)]

generateSuggestions(cs, ws, ts) ==
  IF \E i \in 1..Len(ws) : skillsAdded(ws[i]).threw
    THEN [threw |-> TRUE, list |-> <<>>]
    ELSE LET all == curatedSuggestions \o dynamicSuggestions(ws, ts) IN
         [threw |-> FALSE, list |-> SubSeq(all, 1, Min(SuggestionLimit, Len(all)))]

\* Number(x) > Number(y) and Number(x) < Number(y): false when either is NaN.
NumberGreater(x, y) ==
  ToNumber(x).t = "num" /\ ToNumber(y).t = "num" /\ ToNumber(x).n > ToNumber(y).n

NumberLess(x, y) ==
  ToNumber(x).t = "num" /\ ToNumber(y).t = "num" /\ ToNumber(x).n < ToNumber(y).n

NumberEqual(x, y) ==
  ToNumber(x).t = "num" /\ ToNumber(y).t = "num" /\ ToNumber(x).n = ToNumber(y).n

\* x === y for a filter value y, which is a string or a number.
StrictEquals(x, y) == x.t \in {"str", "num"} /\ x = y

\* String(x).toLowerCase().includes(String(y).toLowerCase())
ContainsText(x, y) == Includes(ToLowerCase(ToStr(x)), ToLowerCase(ToStr(y)))

\* The body of filters.every in filterData, for one item and one filter.
filterAccepts(item, filter, entityType) ==
  IF filter.entityType # entityType THEN TRUE
  ELSE IF filter.field \notin DOMAIN item THEN FALSE
  ELSE LET fieldValue == item[filter.field] IN
    IF fieldValue.t \in {"undef", "null"} THEN FALSE
    ELSE CASE filter.operator = "equals" -> StrictEquals(fieldValue, filter.value)
           [] filter.operator = "contains" ->
                IF IsArray(fieldValue)
                  THEN \E i \in 1..Len(fieldValue.a) : ContainsText(fieldValue.a[i], filter.value)
                  ELSE ContainsText(fieldValue, filter.value)
           [] filter.operator = "greater" -> NumberGreater(fieldValue, filter.value)
           [] filter.operator = "less" -> NumberLess(fieldValue, filter.value)
           [] filter.operator = "greaterEqual" ->
                NumberGreater(fieldValue, filter.value) \/ NumberEqual(fieldValue, filter.value)
           [] filter.operator = "lessEqual" ->
                NumberLess(fieldValue, filter.value) \/ NumberEqual(fieldValue, filter.value)
           [] filter.operator = "in" ->
                IF IsArray(fieldValue) THEN SeqHas(fieldValue.a, filter.value)
                ELSE StrictEquals(fieldValue, filter.value)
           [] OTHER -> TRUE

filterData(data, filters, entityType) ==
  SelectSeq(data, LAMBDA item :
    \A k \in 1..Len(filters) : filterAccepts(item, filters[k], entityType))

\* The keys of a row in the order of its columns.
columnsOf(item) ==
  IF "ClientID" \in DOMAIN item
    THEN <<"ClientID", "ClientName", "PriorityLevel", "RequestedTaskIDs", "GroupTag",
           "AttributesJSON">>
  ELSE IF "WorkerID" \in DOMAIN item
    THEN <<"WorkerID", "WorkerName", "Skills", "AvailableSlots", "MaxLoadPerPhase",
           "WorkerGroup", "QualificationLevel">>
  ELSE <<"TaskID", "TaskName", "Category", "Duration", "RequiredSkills", "PreferredPhases",
         "MaxConcurrent">>

\* Object.values(item).join(" ")
RECURSIVE JoinSpace(_)
JoinSpace(es) ==
  IF es = <<>> THEN <<>>
  ELSE LET h == IF Head(es).t \in {"null", "undef"} THEN <<>> ELSE ToStr(Head(es)) IN
       IF Len(es) = 1 THEN h ELSE h \o <<" ">> \o JoinSpace(Tail(es))

searchableText(item) ==
  ToLowerCase(JoinSpace([k \in 1..Len(columnsOf(item)) |-> item[columnsOf(item)[k]]]))

\* keywordSearch: performSearch calls it after filterData whenever the parse
\* has search terms.
keywordSearch(data, searchTerms) ==
  IF searchTerms = <<>> THEN data
  ELSE SelectSeq(data, LAMBDA item :
         \E k \in 1..Len(searchTerms) :
           Includes(searchableText(item), ToLowerCase(searchTerms[k])))

\* The records performSearch keeps of one collection.
filteredOf(parsed, state, entityType) ==
  LET data == state[entityType]
      filtered == IF Len(parsed.filters) > 0
                    THEN filterData(data, parsed.filters, entityType)
                    ELSE data IN
  keywordSearch(filtered, parsed.searchTerms)

\* The result groups of performSearch: one per entity type in scope that
\* keeps a record.
resultsOf(parsed, state) ==
  ConcatAll([k \in 1..Len(parsed.entityTypes) |->
    LET filteredData == filteredOf(parsed, state, parsed.entityTypes[k]) IN
    IF Len(filteredData) > 0
      THEN <<[type |-> parsed.entityTypes[k], data |-> filteredData,
              totalCount |-> Len(filteredData), query |-> parsed.originalQuery,
              confidence |-> parsed.confidence]>>
      ELSE <<>>])

\* The most rows of one collection in the stores the search runs over.
MaxSearchRows == 1

\* The workers of the palette that list skills, as a string or as an array.
SearchWorkers == {worker \in WorkerRows : IsString(worker.WorkerID) /\ Truthy(worker.Skills)}

InitSearch ==
  /\ clients = <<clientBolt>>
  /\ workers \in SeqsUpTo(SearchWorkers, MaxSearchRows)
  /\ tasks \in SeqsUpTo({taskBuild}, MaxSearchRows)
  /\ query = <<>>
  /\ parsedQuery = <<>>
  /\ suggestions = generateSuggestions(clients, workers, tasks).list
  /\ searchResults = <<>>
  /\ outcome = "none"
  /\ report = NoReport
  /\ rules = NoRules
  /\ now = 0
  /\ validationErrors = <<>>
  /\ recommendations = <<>>
  /\ ruleSet = <<>>
  /\ timers = <<>>
  /\ isValidating = FALSE

notSearch == <<clients, workers, tasks, outcome, report, now, rulesVars, exportVars, panelVars>>

\* performSearch(searchQuery): a blank text returns before the parser runs.
performSearch(text) ==
  /\ query' = text
  /\ IF Trim(text) = <<>>
       THEN parsedQuery' = parsedQuery /\ searchResults' = <<>>
       ELSE \E parsed \in {parse(text)} :
              /\ parsedQuery' = <<parsed>>
              /\ searchResults' = resultsOf(parsed, current)
  /\ UNCHANGED suggestions
  /\ UNCHANGED notSearch

\* The operator types a text and presses Enter.
handleSearch ==
  \E text \in TypedQueries : performSearch(text)

handleSuggestionClick ==
  \E i \in 1..Len(suggestions) : performSearch(suggestions[i])

clearResults ==
  /\ query' = <<>>
  /\ parsedQuery' = <<>>
  /\ searchResults' = <<>>
  /\ UNCHANGED suggestions
  /\ UNCHANGED notSearch

NextSearch == handleSearch \/ handleSuggestionClick \/ clearResults

SpecSearch == InitSearch /\ [][NextSearch]_vars

\* The issues of the report validateAll gives for the store after the step.
ReportedAfter ==
  LET after == validateAll(clients', workers', tasks').result IN
  {after.errors[k].id : k \in 1..Len(after.errors)}
    \cup {after.warnings[k].id : k \in 1..Len(after.warnings)}

\* C26: Auto Fix on a listed issue whose autoFixable flag is true updates the
\* store so that the validation of the resulting snapshot no longer reports
\* an issue with that identifier.
C26_AutoFixRemovesIssue ==
  [][\A error \in DisplayedIssues : handleAutoFix(error) => error.id \notin ReportedAfter]_vars

\* The same for the issues Auto Fix has a case for and that name a range.
C26_RangeFixes ==
  [][\A error \in DisplayedIssues :
       (handleAutoFix(error) /\ FixKindOf(error) \in {"priority", "duration"})
         => error.id \notin ReportedAfter]_vars

-----------------------------------------------------------------------------
(* Properties of the natural-language search *)

\* The words of a text: its maximal runs of letters, digits and underscores.
IsRun(text, i, j) ==
  /\ i <= j
  /\ \A k \in i..j : text[k] \in WordChars
  /\ ~IsWordAt(text, i - 1) /\ ~IsWordAt(text, j + 1)

WordRuns(text) ==
  {SubSeq(text, run[1], run[2]) :
     run \in {pair \in (1..Len(text)) \X (1..Len(text)) : IsRun(text, pair[1], pair[2])}}

Mentions(text, vocabulary) == \E word \in WordRuns(text) : ToLowerCase(word) \in vocabulary

ClientWords == {<<"c", "l", "i", "e", "n", "t">>, <<"c", "l", "i", "e", "n", "t", "s">>}
WorkerWords ==
  {<<"w", "o", "r", "k", "e", "r">>, <<"w", "o", "r", "k", "e", "r", "s">>, <<"e", "m", "p", "l", "o", "y", "e", "e">>, <<"e", "m", "p", "l", "o", "y", "e", "e", "s">>}
TaskWords == {<<"t", "a", "s", "k">>, <<"t", "a", "s", "k", "s">>, <<"j", "o", "b">>, <<"j", "o", "b", "s">>}

VocabulariesDetected(text) ==
  Cardinality({vocabulary \in {ClientWords, WorkerWords, TaskWords} : Mentions(text, vocabulary)})

\* C17: the confidence of a parse is min(100, 20 x the number of the three
\* entity vocabularies the text mentions + 15 x the number of filters), an
\* integer in 0..100; it counts the vocabularies detected, not the entity
\* types left after the templates narrowed the scope.
C17_Confidence ==
  parsedQuery # <<>> =>
    LET parsed == parsedQuery[1]
        score == 20 * VocabulariesDetected(parsed.originalQuery) + 15 * Len(parsed.filters) IN
    /\ parsed.confidence = (IF score > 100 THEN 100 ELSE score)
    /\ parsed.confidence \in 0..100

\* A parse that reaches the cap while its scope is narrowed to one entity.
C17_Witness ==
  /\ parsedQuery # <<>>
  /\ parsedQuery[1].confidence = 100
  /\ Len(parsedQuery[1].entityTypes) = 1
  /\ VocabulariesDetected(parsedQuery[1].originalQuery) = 3

\* The eight templates in the order claimed, each with the filter it stands for.
Templates ==
  << [pattern |-> skillPattern, field |-> "Skills", operator |-> "contains"],
     [pattern |-> durationPattern, field |-> "Duration", operator |-> "greater"],
     [pattern |-> priorityPattern, field |-> "PriorityLevel", operator |-> "greater"],
     [pattern |-> phasePattern, field |-> "AvailableSlots", operator |-> "contains"],
     [pattern |-> categoryPattern, field |-> "Category", operator |-> "contains"],
     [pattern |-> overloadedPattern, field |-> "MaxLoadPerPhase", operator |-> "greater"],
     [pattern |-> highPriorityPattern, field |-> "PriorityLevel", operator |-> "greaterEqual"],
     [pattern |-> groupPattern, field |-> "WorkerGroup", operator |-> "contains"] >>

MatchingTemplates(text) ==
  SelectSeq([k \in 1..Len(Templates) |-> k], LAMBDA k : test(Templates[k].pattern, text))

\* C18: the filters of a parse are exactly one filter for each template that
\* matches the text, in the fixed order of the eight templates, and no other
\* filter; a template matches or not whatever the others do.
C18_Filters ==
  parsedQuery # <<>> =>
    LET parsed == parsedQuery[1]
        matching == MatchingTemplates(parsed.originalQuery) IN
    /\ Len(parsed.filters) = Len(matching)
    /\ \A i \in 1..Len(matching) :
         /\ parsed.filters[i].field = Templates[matching[i]].field
         /\ parsed.filters[i].operator = Templates[matching[i]].operator

\* A text that two templates match: the skill filter, then the group filter.
C18_Witness ==
  /\ parsedQuery # <<>>
  /\ Len(parsedQuery[1].filters) = 2
  /\ parsedQuery[1].filters[1].field = "Skills"
  /\ parsedQuery[1].filters[2].field = "WorkerGroup"

\* C19: no search term is a stop-word or has two characters or fewer, and
\* every search term is lower-case and free of punctuation.
C19_SearchTerms ==
  parsedQuery # <<>> =>
    \A i \in 1..Len(parsedQuery[1].searchTerms) :
      LET term == parsedQuery[1].searchTerms[i] IN
      /\ term \notin StopWords
      /\ Len(term) > 2
      /\ ToLowerCase(term) = term
      /\ \A k \in 1..Len(term) : term[k] \in LowerChars \cup UpperChars \cup DigitChars

\* C20: the suggestions are at most 20, and whenever the store holds a
\* non-empty worker skill or a task category, one suggestion of the list is
\* synthesized from it.
C20_Suggestions ==
  /\ Len(suggestions) <= 20
  /\ LET synthesized == dynamicSuggestions(workers, tasks) IN
     synthesized # <<>> =>
       \E i \in 1..Len(suggestions), j \in 1..Len(synthesized) : suggestions[i] = synthesized[j]

Operators == {"equals", "contains", "greater", "less", "greaterEqual", "lessEqual", "in"}

Lacks(item, field) == field \notin DOMAIN item \/ item[field].t \in {"undef", "null"}

\* The entity types performSearch applies the filters to.
InScope == {parsedQuery[1].entityTypes[k] : k \in 1..Len(parsedQuery[1].entityTypes)}

\* C21: when the filters of a parsed query are applied to a collection, a
\* record on which the target field of some filter is absent or null is
\* excluded, for every operator and whatever entity type the filter is
\* scoped to.
C21_NullExcluded ==
  parsedQuery # <<>> =>
    \A entityType \in InScope, operator \in Operators :
      LET filters == [k \in 1..Len(parsedQuery[1].filters) |->
                       [parsedQuery[1].filters[k] EXCEPT !.operator = operator]]
          kept == filterData(current[entityType], filters, entityType) IN
      \A i \in 1..Len(kept), k \in 1..Len(filters) : ~Lacks(kept[i], filters[k].field)

\* The same for the filters scoped to the collection they are applied to.
C21_SameScope ==
  parsedQuery # <<>> =>
    \A entityType \in InScope, operator \in Operators :
      LET filters == [k \in 1..Len(parsedQuery[1].filters) |->
                       [parsedQuery[1].filters[k] EXCEPT !.operator = operator]]
          kept == filterData(current[entityType], filters, entityType) IN
      \A i \in 1..Len(kept), k \in 1..Len(filters) :
        filters[k].entityType = entityType => ~Lacks(kept[i], filters[k].field)

\* The records of the result group shown for an entity type.
ShownOf(entityType) ==
  UNION {{searchResults[g].data[i] : i \in 1..Len(searchResults[g].data)} :
           g \in {h \in 1..Len(searchResults) : searchResults[h].type = entityType}}

\* C24: when the parsed query has at least one filter, every record of a
\* collection in scope that satisfies all the filters is part of the result,
\* whether or not its values contain a keyword.
C24_KeywordsOnlyFallback ==
  (parsedQuery # <<>> /\ Trim(query) # <<>> /\ parsedQuery[1].filters # <<>>) =>
    \A k \in 1..Len(parsedQuery[1].entityTypes) :
      LET entityType == parsedQuery[1].entityTypes[k]
          kept == filterData(current[entityType], parsedQuery[1].filters, entityType) IN
      \A i \in 1..Len(kept) : kept[i] \in ShownOf(entityType)

\* C25: the entity type of each filter of a parse is a member of its
\* entityTypes; entityTypes is never empty, and is all three types when the
\* text mentions no entity vocabulary and matches no template.
C25_FilterScope ==
  parsedQuery # <<>> =>
    LET parsed == parsedQuery[1] IN
    /\ \A k \in 1..Len(parsed.filters) :
         \E e \in 1..Len(parsed.entityTypes) : parsed.entityTypes[e] = parsed.filters[k].entityType
    /\ parsed.entityTypes # <<>>
    /\ (VocabulariesDetected(parsed.originalQuery) = 0 /\ parsed.filters = <<>>)
         => parsed.entityTypes = <<"clients", "workers", "tasks">>

\* The parts of C25 that do not relate the filters to the scope.
C25_ScopeNeverEmpty ==
  parsedQuery # <<>> =>
    LET parsed == parsedQuery[1] IN
    /\ parsed.entityTypes # <<>>
    /\ (VocabulariesDetected(parsed.originalQuery) = 0 /\ parsed.filters = <<>>)
         => parsed.entityTypes = <<"clients", "workers", "tasks">>

====
